---- MODULE Spec2Model ----
(***************************************************************************)
(* A model of the document reconstruction engine of build_jsons.py        *)
(* (class JSONBuilder): the title tree builder, the footnote separator    *)
(* and the page aggregator.  Text is modelled as a sequence of            *)
(* one-character strings, a dict as a function (or, where its iteration   *)
(* order matters, as a sequence of key/value records in insertion order). *)
(***************************************************************************)
EXTENDS Integers, Sequences, FiniteSets, TLC

(***************************************************************************)
(* Bounds of the model.                                                    *)
(***************************************************************************)
\* the largest number of entries of title_data (known titles of a book)
MaxTitles == 3
\* the number of nested frames of a recursive helper the interpreter allows
\* before it raises RecursionError; larger than any recursion over
\* MaxTitles + 1 titles that ends by itself
RecursionLimit == 8
\* the largest number of pieces (FootPieces) a raw foot text is made of
MaxFootPieces == 5
\* the largest number of page records of a book
MaxPages == 4
\* the longest authors field, in characters
MaxAuthorChars == 5
\* the longest pdf_links or meta_data field, in pieces
MaxJsonPieces == 4
\* the largest number of page records of a book that is processed as a whole
MaxBookPages == 2
\* the largest number of content files of a batch
MaxBooks == 3
\* the largest number of pieces (TextPieces) of a page text
MaxTextPieces == 4

(***************************************************************************)
(* Generic helpers: dict.get, str.strip.                                   *)
(***************************************************************************)
\* d.get(k, default)
DictGet(d, k, default) == IF k \in DOMAIN d THEN d[k] ELSE default

\* the characters str.strip() removes
Whitespace == {" ", "\t", "\n", "\r"}

RECURSIVE LStrip(_)
LStrip(s) ==
    IF s # <<>> /\ Head(s) \in Whitespace THEN LStrip(Tail(s)) ELSE s

RECURSIVE RStrip(_)
RStrip(s) ==
    IF s # <<>> /\ s[Len(s)] \in Whitespace
    THEN RStrip(SubSeq(s, 1, Len(s) - 1))
    ELSE s

\* a variant of Strip that forgets the trailing whitespace
StripLeftOnly(s) == LStrip(s)

\* s.strip()
Strip(s) == RStrip(LStrip(s))

(***************************************************************************)
(* Title tree builder: inputs.                                             *)
(***************************************************************************)
\* the parent id that means "top level" (lines 536, 538, 563, 582)
RootSentinel == "0"

\* the title ids a book may use; "0" is a legal numeric suffix of a title id
\* and so may be a known title although it is also the sentinel
TitleIds == {"0", "1", "2", "3"}

\* the heading text of a title, as read from the title CSV (untrimmed)
TitleText(id) == <<" ", "T", id, " ">>

\* all sequences of distinct elements of S of length at most n
RECURSIVE DistinctSeqs(_, _)
DistinctSeqs(S, n) ==
    IF n = 0 THEN {<<>>}
    ELSE LET shorter == DistinctSeqs(S, n - 1)
         IN shorter \cup
            {Append(q, x) : <<q, x>> \in
                {<<q, x>> \in shorter \X S :
                    Len(q) = n - 1 /\ \A i \in 1..Len(q) : q[i] # x}}

\* title_data as _load_title_data returns it: numeric_title_id -> text, in
\* the insertion order of the dict
TitleDataOf(ids) == [i \in 1..Len(ids) |-> [id |-> ids[i], body |-> TitleText(ids[i])]]

TitleDatas == {TitleDataOf(ids) : ids \in DistinctSeqs(TitleIds, MaxTitles)}

\* title_hierarchy as _process_single_book loads it: str(id) -> str(parent)
\* for the rows of the book's title table; a parent outside the known titles
\* is a parent id that names no known title
TitleHierarchies == UNION {[S -> TitleIds] : S \in SUBSET TitleIds}

\* the books of up to MaxTitles known titles, with any title table
GeneralTitleInputs == TitleDatas \X TitleHierarchies

\* the title ids of a book of four titles
FourTitleIds == {"1", "2", "3", "4"}

\* following the parent pointers of h from id reaches the sentinel in at
\* most n hops
RECURSIVE RootAbove(_, _, _)
RootAbove(h, id, n) ==
    IF id = RootSentinel THEN TRUE
    ELSE IF n = 0 THEN FALSE
    ELSE RootAbove(h, h[id], n - 1)

\* the books of four titles in any order whose title table has a row for
\* every title and is a forest
FourTitleForestInputs ==
    {TitleDataOf(ids) : ids \in {q \in DistinctSeqs(FourTitleIds, Cardinality(FourTitleIds)) : Len(q) = Cardinality(FourTitleIds)}}
    \X {h \in [FourTitleIds -> FourTitleIds \cup {RootSentinel}] :
            \A id \in FourTitleIds : RootAbove(h, id, Cardinality(FourTitleIds))}

\* the title inputs of a book: <<title_data, title_hierarchy>>
TitleInputs == GeneralTitleInputs \cup FourTitleForestInputs

\* the page on which a title of the title table occurs
PageOfTitle(id) == "1" \o id

\* title_id -> page_id for the rows of the book's title table, the table
\* title_hierarchy is loaded from
BuildTitlePageMapping(hierarchy) == [t \in DOMAIN hierarchy |-> PageOfTitle(t)]

(***************************************************************************)
(* Title tree builder: the algorithm.                                      *)
(***************************************************************************)
\* the outcome of a call: a normal return of value, or a raised exception
Returned(v) == [ok |-> TRUE, value |-> v]
Raised == [ok |-> FALSE, value |-> "RecursionError"]

\* a variant of TocItem that loses the entries found below it
TocItemWithoutChapters(bid, page_number, title_text, chapters) ==
    [page |-> bid \o "/" \o page_number,
     title |-> Strip(title_text),
     chapters |-> <<>>]

\* one TOC entry
TocItem(bid, page_number, title_text, chapters) ==
    [page |-> bid \o "/" \o page_number,
     title |-> Strip(title_text),
     chapters |-> chapters]

RECURSIVE FindTitleChildren(_, _, _, _, _, _)
RECURSIVE FindChildrenFrom(_, _, _, _, _, _, _)

\* the loop of _find_title_children from the i-th entry of title_data on
FindChildrenFrom(i, parent_id, title_hierarchy, title_data, title_page_mapping, book_id, depth) ==
    IF i > Len(title_data) THEN Returned(<<>>)
    ELSE LET title_id == title_data[i].id
             rest == FindChildrenFrom(i + 1, parent_id, title_hierarchy,
                         title_data, title_page_mapping, book_id, depth)
         IN IF DictGet(title_hierarchy, title_id, RootSentinel) = parent_id
            THEN LET grandchildren ==
                         FindTitleChildren(title_id, title_hierarchy, title_data,
                             title_page_mapping, book_id, depth + 1)
                 IN IF ~grandchildren.ok THEN Raised
                    ELSE IF ~rest.ok THEN Raised
                    ELSE Returned(
                        <<TocItem(book_id,
                              DictGet(title_page_mapping, title_id, "1"),
                              title_data[i].body, grandchildren.value)>>
                        \o rest.value)
            ELSE rest

\* a variant of _find_title_children that returns the children it found
\* last first
FindTitleChildrenLastFirst(parent_id, title_hierarchy, title_data, title_page_mapping, book_id, depth) ==
    IF depth > RecursionLimit THEN Raised
    ELSE LET found == FindChildrenFrom(1, parent_id, title_hierarchy, title_data,
                          title_page_mapping, book_id, depth)
         IN IF ~found.ok THEN Raised
            ELSE Returned([k \in 1..Len(found.value) |->
                              found.value[Len(found.value) + 1 - k]])

\* _find_title_children, entered as the depth-th nested frame
FindTitleChildren(parent_id, title_hierarchy, title_data, title_page_mapping, book_id, depth) ==
    IF depth > RecursionLimit THEN Raised
    ELSE FindChildrenFrom(1, parent_id, title_hierarchy, title_data,
             title_page_mapping, book_id, depth)

RECURSIVE MarkChildrenProcessed(_, _, _, _)
RECURSIVE MarkChildrenFrom(_, _, _, _)

\* the loop of _mark_children_processed over the keys of title_hierarchy
\* still to visit; the set it builds does not depend on the order
MarkChildrenFrom(todo, title_hierarchy, processed_titles, depth) ==
    IF todo = {} THEN Returned(processed_titles)
    ELSE LET title_id == CHOOSE t \in todo : TRUE
             below == MarkChildrenProcessed(title_id, title_hierarchy,
                          processed_titles \cup {title_id}, depth + 1)
         IN IF ~below.ok THEN Raised
            ELSE MarkChildrenFrom(todo \ {title_id}, title_hierarchy,
                     below.value, depth)

\* _mark_children_processed, entered as the depth-th nested frame
MarkChildrenProcessed(parent_id, title_hierarchy, processed_titles, depth) ==
    IF depth > RecursionLimit THEN Raised
    ELSE MarkChildrenFrom(
             {t \in DOMAIN title_hierarchy : title_hierarchy[t] = parent_id},
             title_hierarchy, processed_titles, depth)

\* a variant in which the set of the previous call is kept
StaleProcessedTitles(previous) == previous

\* processed_titles = set()
FreshProcessedTitles(previous) == {}

\* if parent_id == "0"
IsRootLevel(parent_id) == parent_id = RootSentinel

RECURSIVE BuildTocFrom(_, _, _, _, _, _, _)
\* the loop of _build_table_of_contents from the i-th entry of title_data on
BuildTocFrom(i, toc_items, processed_titles, book_id, title_hierarchy, title_data, title_page_mapping) ==
    IF i > Len(title_data)
    THEN Returned([toc |-> toc_items, processed |-> processed_titles])
    ELSE LET title_id == title_data[i].id
             parent_id == DictGet(title_hierarchy, title_id, RootSentinel)
             skip == BuildTocFrom(i + 1, toc_items, processed_titles, book_id,
                         title_hierarchy, title_data, title_page_mapping)
         IN IF title_id \in processed_titles THEN skip
            ELSE IF IsRootLevel(parent_id)
            THEN LET children ==
                         FindTitleChildren(title_id, title_hierarchy, title_data,
                             title_page_mapping, book_id, 1)
                     marked ==
                         MarkChildrenProcessed(title_id, title_hierarchy,
                             processed_titles \cup {title_id}, 1)
                 IN IF ~children.ok THEN Raised
                    ELSE IF ~marked.ok THEN Raised
                    ELSE BuildTocFrom(i + 1,
                             Append(toc_items,
                                 TocItem(book_id,
                                     DictGet(title_page_mapping, title_id, "1"),
                                     title_data[i].body, children.value)),
                             marked.value, book_id, title_hierarchy, title_data,
                             title_page_mapping)
            ELSE skip

\* what _build_table_of_contents gives its caller: status "none" for None,
\* "toc" for a returned list, "raised" for an exception that leaves it
BuildTableOfContents(toc_mode, book_id, title_hierarchy, title_data, previous) ==
    IF ~toc_mode THEN [status |-> "none", toc |-> <<>>, processed |-> previous]
    ELSE IF title_data = <<>>
    THEN [status |-> "none", toc |-> <<>>, processed |-> previous]
    ELSE LET built == BuildTocFrom(1, <<>>, FreshProcessedTitles(previous),
                          book_id, title_hierarchy, title_data,
                          BuildTitlePageMapping(title_hierarchy))
         IN IF built.ok
            THEN [status |-> "toc", toc |-> built.value.toc,
                  processed |-> built.value.processed]
            ELSE [status |-> "raised", toc |-> <<>>, processed |-> previous]

(***************************************************************************)
(* Footnote separator.  A field of a page record is a cell: NULL (None or  *)
(* NaN) or a text.                                                         *)
(***************************************************************************)
Null == [isna |-> TRUE, text |-> <<>>]
Text(s) == [isna |-> FALSE, text |-> s]

\* str(x) if x and not pd.isna(x) else ""
CoerceToStr(cell) == IF cell.text # <<>> /\ ~cell.isna THEN cell.text ELSE <<>>

\* the shortest run of underscores that separates body and footnote: the 5
\* of the pattern _{5,}
MinSeparatorRun == 5

\* the number of consecutive underscores of s from position i on
RECURSIVE RunLengthAt(_, _)
RunLengthAt(s, i) ==
    IF i <= Len(s) /\ s[i] = "_" THEN 1 + RunLengthAt(s, i + 1) ELSE 0

\* a variant of MatchLengthAt that takes the shortest match
ShortestMatchLengthAt(s, i) ==
    IF RunLengthAt(s, i) >= MinSeparatorRun THEN MinSeparatorRun ELSE 0

\* the length of the match of _{5,} that starts at position i of s, 0 when
\* there is none: the quantifier is greedy and takes the whole run
MatchLengthAt(s, i) ==
    IF RunLengthAt(s, i) >= MinSeparatorRun THEN RunLengthAt(s, i) ELSE 0

\* re.search(separator_pattern, s), scanning from position i: the start of
\* the leftmost match, 0 when there is none
RECURSIVE SearchSeparator(_, _)
SearchSeparator(s, i) ==
    IF i > Len(s) THEN 0
    ELSE IF MatchLengthAt(s, i) > 0 THEN i
    ELSE SearchSeparator(s, i + 1)

\* if re.search(separator_pattern, foot)
FootHasSeparator(foot) == SearchSeparator(foot, 1) > 0

\* re.split(separator_pattern, s, 1) of a text that holds a match
SplitOnce(s) ==
    LET start == SearchSeparator(s, 1)
        after == start + MatchLengthAt(s, start)
    IN <<SubSeq(s, 1, start - 1), SubSeq(s, after, Len(s))>>

\* a variant of PromoteFoot that leaves the foot where it was
KeepFootAsFootnote(foot) == [body |-> <<>>, footnote |-> foot]

\* return foot, "": the foot is the body
PromoteFoot(foot) == [body |-> foot, footnote |-> <<>>]

\* _separate_body_footnote
SeparateBodyFootnote(raw_body, raw_foot) ==
    LET body == Strip(CoerceToStr(raw_body))
        foot == Strip(CoerceToStr(raw_foot))
        parts == SplitOnce(foot)
    IN IF body # <<>> THEN [body |-> body, footnote |-> foot]
       ELSE IF foot # <<>>
       THEN IF FootHasSeparator(foot)
            THEN [body |-> Strip(parts[1]),
                  footnote |-> IF Len(parts) > 1 THEN Strip(parts[2]) ELSE <<>>]
            ELSE PromoteFoot(foot)
       ELSE [body |-> body, footnote |-> foot]

\* the pieces a raw foot text is made of
FootPieces == {<<"a">>, <<" ">>, <<"_">>, <<"_", "_", "_">>, <<"_", "_", "_", "_", "_">>}

\* the texts made of at most n pieces
RECURSIVE TextsOfPieces(_, _)
TextsOfPieces(pieces, n) ==
    IF n = 0 THEN {<<>>}
    ELSE LET shorter == TextsOfPieces(pieces, n - 1)
         IN shorter \cup {t \o q : <<t, q>> \in shorter \X pieces}

\* the values of the foot field of a page record
FootCells == {Null} \cup {Text(t) : t \in TextsOfPieces(FootPieces, MaxFootPieces)}

\* the values of the body field of a page record
BodyCells ==
    {Null, Text(<<>>), Text(<<" ">>), Text(<<"a">>), Text(<<" ", "a", "\n">>),
     Text(<<"a", "_", "_", "_", "_", "_", "a">>)}

(***************************************************************************)
(* Page aggregator: the loop of _build_book_json over the page records.    *)
(***************************************************************************)
\* text.replace('\r', '\n')
ReplaceCarriageReturns(text) ==
    [i \in 1..Len(text) |-> IF text[i] = "\r" THEN "\n" ELSE text[i]]

\* _process_text on a text that holds no "<": every tag pattern of lines
\* 489-511 starts with "<" and so matches nothing in it
ProcessTagFreeText(text) ==
    IF text = <<>> THEN <<>> ELSE ReplaceCarriageReturns(text)

\* the page records of the content CSV; two of them have the same PageID
PageRows ==
    {[PageID |-> "1", body |-> Text(<<"a", "\r", "b">>), foot |-> Null],
     [PageID |-> "2", body |-> Null,
      foot |-> Text(<<"a", "_", "_", "_", "_", "_", "b">>)],
     [PageID |-> "3", body |-> Text(<<>>), foot |-> Text(<<" ", "b", " ">>)],
     [PageID |-> "1", body |-> Text(<<"c">>), foot |-> Text(<<"d">>)]}

\* all sequences of elements of S of length at most n
RECURSIVE SeqsUpTo(_, _)
SeqsUpTo(S, n) ==
    IF n = 0 THEN {<<>>}
    ELSE LET shorter == SeqsUpTo(S, n - 1)
         IN shorter \cup {Append(q, x) : <<q, x>> \in shorter \X S}

BookContents == SeqsUpTo(PageRows, MaxPages)

\* the rows of the page table of a book database: part is a text column (a
\* label or NULL), page a number column (NaN when NULL)
PageTableRows ==
    {[part |-> Null, page |-> [isna |-> TRUE, number |-> 0]],
     [part |-> Text(<<>>), page |-> [isna |-> FALSE, number |-> 5]],
     [part |-> Text(<<"1">>), page |-> [isna |-> FALSE, number |-> 5]],
     [part |-> Text(<<"2">>), page |-> [isna |-> TRUE, number |-> 0]]}

PageIdsOfTable == {"1", "2", "3"}

\* page_structure: str(id) -> row of the page table, {} without a database
PageStructures == UNION {[S -> PageTableRows] : S \in SUBSET PageIdsOfTable}

\* part = structure.get('part', '') or ''
PartOfPage(page_structure, page_id) ==
    IF page_id \in DOMAIN page_structure
    THEN CoerceToStr(page_structure[page_id].part)
    ELSE <<>>

\* page_number = structure.get('page', page_id), NaN turned into "" and a
\* float into an int, then str(page_number)
PageNumberOfPage(page_structure, page_id) ==
    IF page_id \in DOMAIN page_structure
    THEN IF page_structure[page_id].page.isna THEN ""
         ELSE ToString(page_structure[page_id].page.number)
    ELSE page_id

\* page_data, without the original_body that lines 449-452 delete again
PageData(page_row, page_structure) ==
    LET separated_text == SeparateBodyFootnote(page_row.body, page_row.foot)
    IN [page_id |-> page_row.PageID,
        page_number |-> PageNumberOfPage(page_structure, page_row.PageID),
        body |-> ProcessTagFreeText(separated_text.body),
        footnote |-> ProcessTagFreeText(separated_text.footnote)]

\* a variant of AddPage that puts a new part before the others
AddPageNewPartFirst(pages_by_part, part, page_data) ==
    IF \E g \in 1..Len(pages_by_part) : pages_by_part[g].part = part
    THEN [g \in 1..Len(pages_by_part) |->
             IF pages_by_part[g].part = part
             THEN [part |-> part, pages |-> Append(pages_by_part[g].pages, page_data)]
             ELSE pages_by_part[g]]
    ELSE <<[part |-> part, pages |-> <<page_data>>]>> \o pages_by_part

\* a variant of AddPage that keeps one page per page_id in a part
AddPageOncePerId(pages_by_part, part, page_data) ==
    IF \E g \in 1..Len(pages_by_part) : pages_by_part[g].part = part
    THEN [g \in 1..Len(pages_by_part) |->
             IF /\ pages_by_part[g].part = part
                /\ \A k \in 1..Len(pages_by_part[g].pages) :
                       pages_by_part[g].pages[k].page_id # page_data.page_id
             THEN [part |-> part, pages |-> Append(pages_by_part[g].pages, page_data)]
             ELSE pages_by_part[g]]
    ELSE Append(pages_by_part, [part |-> part, pages |-> <<page_data>>])

\* pages_by_part[part].append(page_data) on a defaultdict(list), which keeps
\* its keys in the order of their first use
AddPage(pages_by_part, part, page_data) ==
    IF \E g \in 1..Len(pages_by_part) : pages_by_part[g].part = part
    THEN [g \in 1..Len(pages_by_part) |->
             IF pages_by_part[g].part = part
             THEN [part |-> part, pages |-> Append(pages_by_part[g].pages, page_data)]
             ELSE pages_by_part[g]]
    ELSE Append(pages_by_part, [part |-> part, pages |-> <<page_data>>])

\* the loop over book_content from its i-th record on
RECURSIVE OrganizePagesFrom(_, _, _, _)
OrganizePagesFrom(i, pages_by_part, book_content, page_structure) ==
    IF i > Len(book_content) THEN pages_by_part
    ELSE OrganizePagesFrom(i + 1,
             AddPage(pages_by_part,
                 PartOfPage(page_structure, book_content[i].PageID),
                 PageData(book_content[i], page_structure)),
             book_content, page_structure)

\* parts_list: one {"part", "pages"} entry per key of pages_by_part, in the
\* order of the keys
PartsList(book_content, page_structure) ==
    LET pages_by_part == OrganizePagesFrom(1, <<>>, book_content, page_structure)
    IN [g \in 1..Len(pages_by_part) |->
           [part |-> pages_by_part[g].part, pages |-> pages_by_part[g].pages]]

(***************************************************************************)
(* Author resolver: lines 413-443 of _build_book_json.                     *)
(***************************************************************************)
\* the characters of the decimal digits, Digits[d + 1] for digit d
Digits == <<"0", "1", "2", "3", "4", "5", "6", "7", "8", "9">>

\* str(n) of an integer n >= 0
RECURSIVE StrOfInt(_)
StrOfInt(n) ==
    IF n < 10 THEN <<Digits[n + 1]>>
    ELSE StrOfInt(n \div 10) \o <<Digits[(n % 10) + 1]>>

\* the digit a character stands for
DigitValue(c) == CHOOSE d \in 0..9 : Digits[d + 1] = c

IsDigit(c) == \E d \in 0..9 : Digits[d + 1] = c

ValueError == [ok |-> FALSE, value |-> "ValueError"]

\* int(token) of a token without sign, underscore or outer whitespace: its
\* value when it is a run of one or more digits, ValueError otherwise
RECURSIVE ValueOfDigits(_, _)
ValueOfDigits(token, acc) ==
    IF token = <<>> THEN acc
    ELSE ValueOfDigits(Tail(token), 10 * acc + DigitValue(Head(token)))

ParseInt(token) ==
    IF token # <<>> /\ \A k \in 1..Len(token) : IsDigit(token[k])
    THEN Returned(ValueOfDigits(token, 0))
    ELSE ValueError

\* s.split(','): the pieces between the commas, empty ones included
RECURSIVE SplitOnComma(_, _)
SplitOnComma(s, piece) ==
    IF s = <<>> THEN <<piece>>
    ELSE IF Head(s) = "," THEN <<piece>> \o SplitOnComma(Tail(s), <<>>)
    ELSE SplitOnComma(Tail(s), Append(piece, Head(s)))

\* [aid.strip() for aid in pieces if aid.strip()]
RECURSIVE StrippedNonEmpty(_)
StrippedNonEmpty(pieces) ==
    IF pieces = <<>> THEN <<>>
    ELSE LET aid == Strip(Head(pieces))
         IN (IF aid # <<>> THEN <<aid>> ELSE <<>>) \o StrippedNonEmpty(Tail(pieces))

\* the renderings of an empty list and of None, which line 419 takes for an
\* empty field
EmptyListText == <<"[", "]">>
NoneText == <<"N", "o", "n", "e">>

\* author_ids of lines 419-422, from the text of the authors field
ParseAuthorIds(authors) ==
    LET author_ids_str == Strip(authors)
    IN IF author_ids_str # <<>> /\ author_ids_str \notin {<<>>, EmptyListText, NoneText}
       THEN StrippedNonEmpty(SplitOnComma(author_ids_str, <<>>))
       ELSE <<>>

\* main_author of a book record: an author id, or the '' of a record
\* without one
NoMainAuthor == [present |-> FALSE, id |-> 0]
MainAuthor(n) == [present |-> TRUE, id |-> n]

InList(x, list) == \E k \in 1..Len(list) : list[k] = x

\* a variant of AppendMainAuthor that appends the main author in any case
AppendMainAuthorAlways(author_ids, main_author_id) ==
    IF main_author_id.present
    THEN Append(author_ids, StrOfInt(main_author_id.id))
    ELSE author_ids

\* lines 425-426: the main author is appended when str(main_author_id) is
\* not among the tokens
AppendMainAuthor(author_ids, main_author_id) ==
    IF main_author_id.present /\ ~InList(StrOfInt(main_author_id.id), author_ids)
    THEN Append(author_ids, StrOfInt(main_author_id.id))
    ELSE author_ids

\* the author_ids list of lines 415-426
AuthorIds(authors, main_author_id) ==
    AppendMainAuthor(ParseAuthorIds(authors), main_author_id)

\* the entry of lines 435-441 for the author record of id author_id_int
AuthorEntry(author_id_int, author, main_author_id) ==
    [id |-> StrOfInt(author_id_int),
     name |-> author.author_name,
     death_number |-> author.death_number,
     death_text |-> author.death_text,
     is_main_author |-> (main_author_id.present /\ author_id_int = main_author_id.id)]

\* a variant of LookupAuthor that takes an id without a record for an
\* author without name
LookupAuthorOrStub(authors_lookup, author_id_int) ==
    IF author_id_int \in DOMAIN authors_lookup
    THEN [found |-> TRUE, author |-> authors_lookup[author_id_int]]
    ELSE [found |-> TRUE,
          author |-> [author_name |-> "", death_number |-> "", death_text |-> ""]]

\* metadata['authors_lookup'].get(author_id_int, {}) and the test "if author"
LookupAuthor(authors_lookup, author_id_int) ==
    IF author_id_int \in DOMAIN authors_lookup
    THEN [found |-> TRUE, author |-> authors_lookup[author_id_int]]
    ELSE [found |-> FALSE]

\* the loop of lines 428-443 over author_ids
RECURSIVE ResolveAuthors(_, _, _)
ResolveAuthors(author_ids, authors_lookup, main_author_id) ==
    IF author_ids = <<>> THEN <<>>
    ELSE LET author_id_int == ParseInt(Head(author_ids))
             rest == ResolveAuthors(Tail(author_ids), authors_lookup, main_author_id)
         IN IF ~author_id_int.ok THEN rest
            ELSE LET looked == LookupAuthor(authors_lookup, author_id_int.value)
                 IN IF looked.found
                    THEN <<AuthorEntry(author_id_int.value, looked.author, main_author_id)>> \o rest
                    ELSE rest

\* the characters of the authors fields
AuthorChars == {"5", "7", "0", "x", ",", " "}

\* the authors fields: the texts of up to MaxAuthorChars characters and the
\* two renderings of an empty value
AuthorFields == SeqsUpTo(AuthorChars, MaxAuthorChars) \cup {EmptyListText, NoneText}

\* the main_author fields
MainAuthorFields == {NoMainAuthor} \cup {MainAuthor(n) : n \in {5, 7, 9}}

\* metadata['authors_lookup']: the records of the authors 5 and 7
AuthorsLookup ==
    [n \in {5, 7} |->
        [author_name |-> IF n = 5 THEN "A" ELSE "B",
         death_number |-> IF n = 5 THEN "505" ELSE "",
         death_text |-> IF n = 5 THEN "505" ELSE ""]]

(***************************************************************************)
(* JSON fields: _parse_json_field and its two uses in _build_book_json.    *)
(* A field text is a sequence of pieces: the punctuation of JSON, the      *)
(* string literal "a" (piece "s"), the digit 1 and a blank.                *)
(***************************************************************************)
JsonPieces == {"{", "}", "[", "]", "s", ":", ",", "1", " "}

JsonObject(items) == [kind |-> "object", items |-> items]
JsonArray(items) == [kind |-> "array", items |-> items]
JsonString == [kind |-> "string", items |-> <<>>]
JsonNumber(digits) == [kind |-> "number", items |-> digits]

\* the empty object {}
EmptyObject == JsonObject(<<>>)

\* bool(value) of a parsed value; the strings and numbers of the pieces are
\* "a" and 1, 11, ..., none of them false
Truthy(value) == value.kind \in {"string", "number"} \/ value.items # <<>>

\* the outcome of a parsing step: a value and the pieces after it, or the
\* JSONDecodeError of the step
Parsed(value, rest) == [ok |-> TRUE, value |-> value, rest |-> rest]
JSONDecodeError == [ok |-> FALSE, value |-> "JSONDecodeError", rest |-> <<>>]

\* the pieces after the leading blanks
RECURSIVE SkipBlanks(_)
SkipBlanks(t) == IF t # <<>> /\ Head(t) = " " THEN SkipBlanks(Tail(t)) ELSE t

\* the digits at the head of t
RECURSIVE LeadingDigits(_)
LeadingDigits(t) ==
    IF t # <<>> /\ Head(t) = "1" THEN <<"1">> \o LeadingDigits(Tail(t)) ELSE <<>>

RECURSIVE ScanOnce(_)
RECURSIVE ParseArrayItems(_, _)
RECURSIVE ParseObjectItems(_, _)

\* the values of an array after "[" or ",": value, blanks, then "," or "]"
ParseArrayItems(t, items) ==
    LET item == ScanOnce(t)
    IN IF ~item.ok THEN JSONDecodeError
       ELSE LET after == SkipBlanks(item.rest)
            IN IF after = <<>> THEN JSONDecodeError
               ELSE IF Head(after) = "]"
                    THEN Parsed(JsonArray(Append(items, item.value)), Tail(after))
               ELSE IF Head(after) = ","
                    THEN ParseArrayItems(SkipBlanks(Tail(after)), Append(items, item.value))
               ELSE JSONDecodeError

\* the pairs of an object after "{" or ",": key, ":", value, then "," or
\* "}"; every key is "a", so that a later pair replaces the earlier one
ParseObjectItems(t, items) ==
    IF t = <<>> \/ Head(t) # "s" THEN JSONDecodeError
    ELSE LET colon == SkipBlanks(Tail(t))
         IN IF colon = <<>> \/ Head(colon) # ":" THEN JSONDecodeError
            ELSE LET item == ScanOnce(SkipBlanks(Tail(colon)))
                 IN IF ~item.ok THEN JSONDecodeError
                    ELSE LET after == SkipBlanks(item.rest)
                         IN IF after = <<>> THEN JSONDecodeError
                            ELSE IF Head(after) = "}"
                                 THEN Parsed(JsonObject(<<item.value>>), Tail(after))
                            ELSE IF Head(after) = ","
                                 THEN ParseObjectItems(SkipBlanks(Tail(after)), <<item.value>>)
                            ELSE JSONDecodeError

\* one JSON value at the head of t
ScanOnce(t) ==
    IF t = <<>> THEN JSONDecodeError
    ELSE IF Head(t) = "s" THEN Parsed(JsonString, Tail(t))
    ELSE IF Head(t) = "1"
         THEN Parsed(JsonNumber(LeadingDigits(t)),
                     SubSeq(t, Len(LeadingDigits(t)) + 1, Len(t)))
    ELSE IF Head(t) = "["
         THEN LET inner == SkipBlanks(Tail(t))
              IN IF inner # <<>> /\ Head(inner) = "]"
                 THEN Parsed(JsonArray(<<>>), Tail(inner))
                 ELSE ParseArrayItems(inner, <<>>)
    ELSE IF Head(t) = "{"
         THEN LET inner == SkipBlanks(Tail(t))
              IN IF inner # <<>> /\ Head(inner) = "}"
                 THEN Parsed(JsonObject(<<>>), Tail(inner))
                 ELSE ParseObjectItems(inner, <<>>)
    ELSE JSONDecodeError

\* json.loads(text): one value with blanks around it and nothing else
JsonLoads(text) ==
    LET scanned == ScanOnce(SkipBlanks(text))
    IN IF scanned.ok /\ SkipBlanks(scanned.rest) = <<>>
       THEN Parsed(scanned.value, <<>>)
       ELSE JSONDecodeError

\* what _parse_json_field returns: None, or the parsed value
ReturnedNone == [isnone |-> TRUE, value |-> EmptyObject]
ReturnedValue(v) == [isnone |-> FALSE, value |-> v]

\* a variant of AfterDecodeError that returns the text that did not parse
KeepUnparsedText(json_str) == ReturnedValue([kind |-> "string", items |-> json_str])

\* except (json.JSONDecodeError, ValueError): return None
AfterDecodeError(json_str) == ReturnedNone

\* _parse_json_field on a field that is NULL or a text
ParseJsonField(json_str) ==
    IF json_str.text = <<>> \/ json_str.isna \/ Strip(json_str.text) = <<>>
    THEN ReturnedNone
    ELSE LET parsed == JsonLoads(Strip(json_str.text))
         IN IF parsed.ok THEN ReturnedValue(parsed.value)
            ELSE AfterDecodeError(Strip(json_str.text))

\* self._parse_json_field(field) or {}
JsonFieldOrEmpty(json_str) ==
    LET parsed == ParseJsonField(json_str)
    IN IF parsed.isnone \/ ~Truthy(parsed.value) THEN EmptyObject ELSE parsed.value

\* the values of a pdf_links or meta_data field: NULL and the texts of up
\* to MaxJsonPieces pieces
JsonFields == {Null} \cup {Text(t) : t \in SeqsUpTo(JsonPieces, MaxJsonPieces)}

(***************************************************************************)
(* One book: _process_single_book and the assembly of _build_book_json.    *)
(***************************************************************************)
\* int(book_id) of the stems of the content files; a stem that is not a
\* number raises ValueError
StemValues == [stem \in {"1000", "2000", "3000", "4000"} |->
                  IF stem = "1000" THEN 1000
                  ELSE IF stem = "2000" THEN 2000
                  ELSE IF stem = "3000" THEN 3000 ELSE 4000]

IntOfBookId(book_id) ==
    IF book_id \in DOMAIN StemValues THEN Returned(StemValues[book_id]) ELSE ValueError

\* a stem that is not a number
NotesStem == "notes"

\* the record of a book in the book table
BookRow(authors, main_author, pdf_links) ==
    [book_name |-> "B", book_category |-> 3, authors |-> authors,
     main_author |-> main_author, pdf_links |-> pdf_links, meta_data |-> Null]

\* metadata['categories_lookup']
CategoriesLookup == [c \in {3} |-> [category_name |-> "C"]]

\* metadata['book_meta_lookup'] and metadata['author_meta_lookup']: the
\* body_store texts by str(id)
BookMetaLookup == [b \in {"1000"} |-> <<"m", "\r", " ", "\r", " ", "n">>]
AuthorMetaLookup == [a \in {<<"5">>} |-> <<"p", "\r">>]

\* text.split("\r")
RECURSIVE SplitOnReturn(_, _)
SplitOnReturn(s, piece) ==
    IF s = <<>> THEN <<piece>>
    ELSE IF Head(s) = "\r" THEN <<piece>> \o SplitOnReturn(Tail(s), <<>>)
    ELSE SplitOnReturn(Tail(s), Append(piece, Head(s)))

\* [line.strip() for line in text.split("\r") if line.strip()]
MetaLines(text) == StrippedNonEmpty(SplitOnReturn(text, <<>>))

\* book_meta_content of lines 341-344
BookMetaContent(book_id) ==
    IF book_id \in DOMAIN BookMetaLookup THEN MetaLines(BookMetaLookup[book_id]) ELSE <<>>

\* author_meta_content of lines 346-350
AuthorMetaContent(book_row) ==
    LET main_author_id == IF book_row.main_author.present
                          THEN StrOfInt(book_row.main_author.id) ELSE <<>>
    IN IF main_author_id # <<>> /\ main_author_id \in DOMAIN AuthorMetaLookup
       THEN MetaLines(AuthorMetaLookup[main_author_id])
       ELSE <<>>

\* what a call gives its caller: a document, None, or an exception
NoDocument == [kind |-> "none"]
RaisedError(error) == [kind |-> "raised", error |-> error]
Document(doc) == [kind |-> "document", document |-> doc]

\* _build_book_json: the document of a book, or the exception of its
\* table of contents
BuildBookDocument(toc_mode, book_id, book_row, book_records, page_struct, hierarchy, titles) ==
    LET parts_list == PartsList(book_records, page_struct)
        category_id == book_row.book_category
        authors == ResolveAuthors(AuthorIds(book_row.authors, book_row.main_author),
                                  AuthorsLookup, book_row.main_author)
        built == BuildTableOfContents(toc_mode, book_id, hierarchy, titles, {})
        has_toc == built.status = "toc" /\ built.toc # <<>>
    IN IF built.status = "raised" THEN RaisedError("RecursionError")
       ELSE Document(
                [book_id |-> book_id,
                 title |-> book_row.book_name,
                 category |-> [id |-> category_id,
                               name |-> IF category_id \in DOMAIN CategoriesLookup
                                        THEN CategoriesLookup[category_id].category_name
                                        ELSE ""],
                 pdf_links |-> JsonFieldOrEmpty(book_row.pdf_links),
                 meta_data |-> JsonFieldOrEmpty(book_row.meta_data),
                 authors |-> authors,
                 book_meta |-> BookMetaContent(book_id),
                 author_meta |-> AuthorMetaContent(book_row),
                 parts |-> parts_list,
                 toc_built |-> built.status = "toc",
                 has_table_of_contents |-> has_toc,
                 table_of_contents |-> IF has_toc THEN built.toc ELSE <<>>])

\* the content file of a book: missing, unreadable, or read as page records
MissingContent == [state |-> "missing", records |-> <<>>]
UnreadableContent == [state |-> "unreadable", records |-> <<>>]
ReadContent(records) == [state |-> "read", records |-> records]

\* the database of a book: missing, or read as page_structure and
\* title_hierarchy
NoDatabase == [page_structure |-> <<>>, title_hierarchy |-> <<>>]

\* _process_single_book(book_id, metadata) for a book with the content file
\* content, the database database and the title CSV titles
ProcessSingleBook(toc_mode, book_id, books_lookup, content, database, titles) ==
    LET key == IntOfBookId(book_id)
    IN IF ~key.ok THEN RaisedError("ValueError")
       ELSE IF key.value \notin DOMAIN books_lookup THEN NoDocument
       ELSE IF content.state = "missing" THEN NoDocument
       ELSE IF content.state = "unreadable" THEN NoDocument
       ELSE BuildBookDocument(toc_mode, book_id, books_lookup[key.value],
                content.records, database.page_structure,
                database.title_hierarchy, titles)

\* the book records, content files, databases and title CSVs of the books
BookRows ==
    {BookRow(<<"5", ",", "7">>, MainAuthor(5), Text(<<"{", "s", ":", "1", "}">>)),
     BookRow(<<>>, NoMainAuthor, Text(<<"{">>))}

BooksLookups == {<<>>} \cup {[n \in {1000} |-> row] : row \in BookRows}

ContentFiles ==
    {MissingContent, UnreadableContent}
    \cup {ReadContent(records) : records \in SeqsUpTo(PageRows, MaxBookPages)}

Databases ==
    {NoDatabase,
     [page_structure |-> [id \in {"1", "2"} |->
                             [part |-> Text(<<"1">>), page |-> [isna |-> FALSE, number |-> 5]]],
      title_hierarchy |-> [t \in {"1", "2"} |-> IF t = "1" THEN "0" ELSE "1"]],
     [page_structure |-> <<>>,
      title_hierarchy |-> [t \in {"0"} |-> "0"]]}

TitleFiles == {<<>>, TitleDataOf(<<"1", "2">>), TitleDataOf(<<"0">>)}

(***************************************************************************)
(* The batch: the loop of build_json_files over the content files of a     *)
(* library of five books.                                                  *)
(***************************************************************************)
\* the stems of the content files of the library
BookStems == DOMAIN StemValues \cup {NotesStem}

\* metadata['books_lookup'] of the library: book 2000 has no record
LibraryBooksLookup ==
    [n \in {1000, 3000, 4000} |->
        BookRow(<<"5">>, MainAuthor(5), Text(<<"{", "}">>))]

\* the page records of a content file of one page
OnePage == <<[PageID |-> "1", body |-> Text(<<"a">>), foot |-> Null]>>

\* the files of the books of the library: the content of book 3000 cannot
\* be read, and in the title tables of book 4000 the known title "0" is its
\* own parent
LibraryFiles(book_id) ==
    IF book_id = "3000"
    THEN [content |-> UnreadableContent, database |-> NoDatabase, titles |-> <<>>]
    ELSE IF book_id = "4000"
    THEN [content |-> ReadContent(OnePage),
          database |-> [page_structure |-> <<>>,
                        title_hierarchy |-> [t \in {"0"} |-> "0"]],
          titles |-> TitleDataOf(<<"0">>)]
    ELSE [content |-> ReadContent(OnePage), database |-> NoDatabase, titles |-> <<>>]

\* self._process_single_book(book_id, metadata) on a book of the library
ProcessLibraryBook(toc_mode, book_id) ==
    ProcessSingleBook(toc_mode, book_id, LibraryBooksLookup,
        LibraryFiles(book_id).content, LibraryFiles(book_id).database,
        LibraryFiles(book_id).titles)

\* a variant of FailedAfter that counts the books without a document and
\* not the books that raised
FailedAfterNoDocumentOnly(outcome, failed) ==
    IF outcome.kind = "none" THEN failed + 1 ELSE failed

\* failed_count after a book: lines 142-148
FailedAfter(outcome, failed) ==
    IF outcome.kind = "document" THEN failed ELSE failed + 1

\* processed_count after a book: lines 134-141
ProcessedAfter(outcome, processed) ==
    IF outcome.kind = "document" THEN processed + 1 ELSE processed

\* a variant of StepAfterBook that goes on to the next file in test mode
StepAfterBookUntilLastFile(in_test_mode, done, files) ==
    IF done = files THEN "summary" ELSE "loop"

\* where the loop goes after the book of an iteration: lines 159-162 leave
\* it in test mode, and the for statement leaves it after the last file
StepAfterBook(in_test_mode, done, files) ==
    IF in_test_mode \/ done = files THEN "summary" ELSE "loop"

(***************************************************************************)
(* Text normalizer: _process_text.  A text is a sequence of characters;    *)
(* each re.sub is a scan from left to right that replaces the leftmost     *)
(* match and goes on behind it.                                            *)
(***************************************************************************)
\* the literal parts of the patterns of lines 489-511
ImgStart == <<"<", "i", "m", "g">>
SpanTypeStart == <<"<", "s", "p", "a", "n", " ", "d", "a", "t", "a", "-", "t", "y",
      "p", "e", "=">>
TitleWord == <<"t", "i", "t", "l", "e">>
IdTocStart == <<" ", "i", "d", "=", "t", "o", "c", "-">>
SpanStart == <<"<", "s", "p", "a", "n">>
SpanEnd == <<"<", "/", "s", "p", "a", "n", ">">>
TitleStart == <<"<", "t", "i", "t", "l", "e">>
TitleEnd == <<"<", "/", "t", "i", "t", "l", "e", ">">>
Quotes == {"'", "\""}

\* the literal lit stands in s at position i
StartsWithAt(s, i, lit) ==
    i + Len(lit) - 1 <= Len(s) /\ SubSeq(s, i, i + Len(lit) - 1) = lit

\* the first position from i on where lit stands in s, 0 if there is none
FindFrom(s, i, lit) ==
    LET at == {j \in i..Len(s) : StartsWithAt(s, j, lit)}
    IN IF at = {} THEN 0 ELSE CHOOSE j \in at : \A k \in at : j <= k

\* the number of digits that stand in s from position i on
RECURSIVE DigitsAt(_, _)
DigitsAt(s, i) ==
    IF i <= Len(s) /\ IsDigit(s[i]) THEN 1 + DigitsAt(s, i + 1) ELSE 0

\* a match of a pattern at a position: its last position and what re.sub
\* puts in its place
NoMatch == [matched |-> FALSE, last |-> 0, replacement |-> <<>>]
Match(last, replacement) == [matched |-> TRUE, last |-> last, replacement |-> replacement]

\* r'<img[^>]*/?>' at position i: up to the first ">"
MatchImg(s, i) ==
    IF ~StartsWithAt(s, i, ImgStart) THEN NoMatch
    ELSE LET close == FindFrom(s, i + Len(ImgStart), <<">">>)
         IN IF close = 0 THEN NoMatch ELSE Match(close, <<>>)

\* the characters of a title id or parent id of the title table
IdChars(id) ==
    CHOOSE q \in SeqsUpTo({"0", "1", "2", "3"}, 2) :
        /\ q # <<>>
        /\ id = (IF Len(q) = 1 THEN q[1] ELSE q[1] \o q[2])

\* the id of the title table written with the characters q, "" if none
IdOfChars(q) ==
    IF Len(q) = 1 THEN q[1] ELSE IF Len(q) = 2 THEN q[1] \o q[2] ELSE ""

\* replace_title_span: f'<title id={title_id} parent={parent_id}>{title_content}</title>'
ReplaceTitleSpan(title_id, title_content, hierarchy) ==
    LET parent_id == DictGet(hierarchy, IdOfChars(title_id), RootSentinel)
    IN (((TitleStart \o <<" ", "i", "d", "=">>) \o title_id)
           \o (<<" ", "p", "a", "r", "e", "n", "t", "=">> \o IdChars(parent_id)))
       \o ((<<">">> \o title_content) \o TitleEnd)

\* r'<span data-type=[\'"]title[\'"] id=toc-(\d+)>([\s\S]*?)</span>' at
\* position i: the content ends before the first "</span>"
MatchTitleSpan(s, i, hierarchy) ==
    LET quote1 == i + Len(SpanTypeStart)
        word == quote1 + 1
        quote2 == word + Len(TitleWord)
        idtoc == quote2 + 1
        digits == idtoc + Len(IdTocStart)
        count == DigitsAt(s, digits)
        gt == digits + count
    IN IF /\ StartsWithAt(s, i, SpanTypeStart)
          /\ quote1 <= Len(s) /\ s[quote1] \in Quotes
          /\ StartsWithAt(s, word, TitleWord)
          /\ quote2 <= Len(s) /\ s[quote2] \in Quotes
          /\ StartsWithAt(s, idtoc, IdTocStart)
          /\ count >= 1
          /\ gt <= Len(s) /\ s[gt] = ">"
       THEN LET close == FindFrom(s, gt + 1, SpanEnd)
            IN IF close = 0 THEN NoMatch
               ELSE Match(close + Len(SpanEnd) - 1,
                        ReplaceTitleSpan(SubSeq(s, digits, gt - 1),
                            SubSeq(s, gt + 1, close - 1), hierarchy))
       ELSE NoMatch

\* r'<span[\s\S]*?>([\s\S]*?)</span>' at position i: the tag ends at the
\* first ">" and the content before the first "</span>" behind it
MatchSpan(s, i) ==
    IF ~StartsWithAt(s, i, SpanStart) THEN NoMatch
    ELSE LET gt == FindFrom(s, i + Len(SpanStart), <<">">>)
         IN IF gt = 0 THEN NoMatch
            ELSE LET close == FindFrom(s, gt + 1, SpanEnd)
                 IN IF close = 0 THEN NoMatch
                    ELSE Match(close + Len(SpanEnd) - 1, SubSeq(s, gt + 1, close - 1))

\* r'<title[^>]*>([\s\S]*?)</title>' at position i
MatchTitleTag(s, i) ==
    IF ~StartsWithAt(s, i, TitleStart) THEN NoMatch
    ELSE LET gt == FindFrom(s, i + Len(TitleStart), <<">">>)
         IN IF gt = 0 THEN NoMatch
            ELSE LET close == FindFrom(s, gt + 1, TitleEnd)
                 IN IF close = 0 THEN NoMatch
                    ELSE Match(close + Len(TitleEnd) - 1, SubSeq(s, gt + 1, close - 1))

\* r'<[^>]+>' at position i: "<", one or more characters that are not ">",
\* and ">"
MatchAnyTag(s, i) ==
    IF i > Len(s) \/ s[i] # "<" THEN NoMatch
    ELSE LET gt == FindFrom(s, i + 1, <<">">>)
         IN IF gt = 0 \/ gt = i + 1 THEN NoMatch ELSE Match(gt, <<>>)

\* the match of one of the five patterns at position i
MatchAt(pattern, s, i, hierarchy) ==
    IF pattern = "img" THEN MatchImg(s, i)
    ELSE IF pattern = "title span" THEN MatchTitleSpan(s, i, hierarchy)
    ELSE IF pattern = "span" THEN MatchSpan(s, i)
    ELSE IF pattern = "title tag" THEN MatchTitleTag(s, i)
    ELSE MatchAnyTag(s, i)

\* the first position from i on where the pattern matches, 0 if there is none
FirstMatchFrom(pattern, s, i, hierarchy) ==
    LET at == {j \in i..Len(s) : MatchAt(pattern, s, j, hierarchy).matched}
    IN IF at = {} THEN 0 ELSE CHOOSE j \in at : \A k \in at : j <= k

\* re.sub(pattern, replacement, s), from position i on: the text up to the
\* leftmost match is kept, the match is replaced, and the scan goes on
\* behind the match
RECURSIVE ReSubFrom(_, _, _, _)
ReSubFrom(pattern, s, i, hierarchy) ==
    LET start == FirstMatchFrom(pattern, s, i, hierarchy)
        found == MatchAt(pattern, s, start, hierarchy)
    IN IF start = 0 THEN SubSeq(s, i, Len(s))
       ELSE (SubSeq(s, i, start - 1) \o found.replacement)
            \o ReSubFrom(pattern, s, found.last + 1, hierarchy)

ReSub(pattern, s, hierarchy) == ReSubFrom(pattern, s, 1, hierarchy)

\* a variant of RemoveRemainingTags that leaves the text as it is
KeepRemainingTags(text) == text

\* line 511: re.sub(r'<[^>]+>', '', text)
RemoveRemainingTags(text) == ReSub("any tag", text, <<>>)

\* _process_text(text, title_hierarchy) on a field that is NULL or a text
ProcessText(toc_mode, text, hierarchy) ==
    IF text.text = <<>> \/ text.isna THEN <<>>
    ELSE LET replaced == ReplaceCarriageReturns(text.text)
             no_img == ReSub("img", replaced, hierarchy)
             titled == ReSub("title span", no_img, hierarchy)
             no_span == ReSub("span", titled, hierarchy)
         IN IF toc_mode
            THEN RemoveRemainingTags(ReSub("title tag", no_span, hierarchy))
            ELSE no_span

\* the pieces the page texts are made of: a letter, an image tag, a heading
\* span of title 12, another span, the end of a span, and another element
ImgTag == ImgStart \o <<" ", "s", "r", "c", "=", "x", "/", ">">>
HeadingSpanTag == ((SpanTypeStart \o <<"\"">>) \o (TitleWord \o <<"\"">>))
                  \o (IdTocStart \o <<"1", "2", ">">>)
OtherSpanTag == SpanStart \o <<" ", "c", "l", "a", "s", "s", "=", "c", ">">>
BoldTag == <<"<", "b", ">">>
BoldEnd == <<"<", "/", "b", ">">>
Letter == <<"a">>
TextPieces == {Letter, ImgTag, HeadingSpanTag, OtherSpanTag, SpanEnd, BoldTag, BoldEnd}

\* longer page texts: the heading "Chapter One", a span in a span, a span
\* in a heading, two lines of a file with carriage returns
ChapterOne == <<"C", "h", "a", "p", "t", "e", "r", " ", "O", "n", "e">>
LongerTexts ==
    {<<HeadingSpanTag, ChapterOne, SpanEnd>>,
     <<OtherSpanTag, OtherSpanTag, Letter, SpanEnd, SpanEnd>>,
     <<HeadingSpanTag, OtherSpanTag, Letter, SpanEnd, Letter, SpanEnd>>,
     <<Letter, <<"\r">>, BoldTag, Letter, BoldEnd>>}

\* the page texts, as sequences of pieces
PageTexts == SeqsUpTo(TextPieces, MaxTextPieces) \cup LongerTexts

\* the characters of a sequence of pieces
RECURSIVE Concat(_)
Concat(pieces) == IF pieces = <<>> THEN <<>> ELSE Head(pieces) \o Concat(Tail(pieces))

\* the title tables the page texts are processed with
TextHierarchies == {<<>>, [t \in {"12"} |-> "3"]}

(***************************************************************************)
(* State.                                                                  *)
(***************************************************************************)
VARIABLES
    generate_toc,      \* self.generate_toc
    title_data,        \* the title-text mapping of book ThisBookId
    title_hierarchy,   \* the title-parent mapping of book ThisBookId
    toc,               \* the last _build_table_of_contents call: its book
                       \* and its outcome
    processed_titles,  \* the set processed_titles of the last call
    first_call,        \* the outcome of the first call
    previous_book,     \* the book of the call before the last, "" if none
    raw_body,          \* the body field of a page record
    raw_foot,          \* the foot field of a page record
    separated,         \* what _separate_body_footnote returned for them
    book_content,      \* the page records of a book, in the order of the CSV
    page_structure,    \* the book's page_id -> {part, page} lookup
    book_json,         \* what _build_book_json built of them: its parts
    book_data,         \* the authors and main_author fields of a book record
    author_ids,        \* the author_ids list built of them
    authors_info,      \* the authors sequence of the document
    json_field,        \* "pdf_links" or "meta_data"
    json_str,          \* the value of that field in the book record
    json_out,          \* the value of that field in the document
    books_lookup,      \* metadata['books_lookup']
    book_file,         \* a book: its id, content file, database, title CSV
    book_result,       \* what _process_single_book gave for it
    test_mode,         \* self.test_mode
    prerequisites,     \* what check_prerequisites returns
    book_csv_files,    \* the stems of the content files, in list order
    batch,             \* build_json_files: where it is, the number of
                       \* iterations of its loop, what it returned
    processed_count,
    failed_count,
    attempted,         \* the books given to _process_single_book, in order
    written,           \* the books whose JSON file was written, in order
    page_text,         \* a page text, as the sequence of its pieces
    text_hierarchy,    \* the title_hierarchy it is processed with
    processed_text,    \* what _process_text returned for it
    reprocessed_text   \* what _process_text returned for that output

tocVars == <<generate_toc, title_data, title_hierarchy, toc, processed_titles,
             first_call, previous_book>>

footVars == <<raw_body, raw_foot, separated>>

pageVars == <<book_content, page_structure, book_json>>

authorVars == <<book_data, author_ids, authors_info>>

jsonVars == <<json_field, json_str, json_out>>

bookVars == <<books_lookup, book_file, book_result>>

batchVars == <<test_mode, prerequisites, book_csv_files, batch, processed_count,
               failed_count, attempted, written>>

textVars == <<page_text, text_hierarchy, processed_text, reprocessed_text>>

vars == <<tocVars, footVars, pageVars, authorVars, jsonVars, bookVars, batchVars,
          textVars>>

\* the text normalizer at rest
TextIdle ==
    /\ page_text = <<>>
    /\ text_hierarchy = <<>>
    /\ processed_text = [done |-> FALSE]
    /\ reprocessed_text = [done |-> FALSE]

\* no book is processed on its own
BookIdle ==
    /\ books_lookup = <<>>
    /\ book_file = [book_id |-> "", content |-> MissingContent,
                    database |-> NoDatabase, titles |-> <<>>]
    /\ book_result = [done |-> FALSE]

\* build_json_files is not called
NoBatch == [pc |-> "idle", i |-> 0, result |-> FALSE]

BatchIdle ==
    /\ test_mode = FALSE
    /\ prerequisites = FALSE
    /\ book_csv_files = <<>>
    /\ batch = NoBatch
    /\ processed_count = 0
    /\ failed_count = 0
    /\ attempted = <<>>
    /\ written = <<>>

\* the JSON fields at rest
JsonIdle ==
    /\ json_field = "pdf_links"
    /\ json_str = Null
    /\ json_out = [done |-> FALSE]

\* the author resolver at rest
AuthorsIdle ==
    /\ book_data = [authors |-> <<>>, main_author |-> NoMainAuthor]
    /\ author_ids = <<>>
    /\ authors_info = [resolved |-> FALSE]

\* the page aggregator at rest
PagesIdle ==
    /\ book_content = <<>>
    /\ page_structure = <<>>
    /\ book_json = [built |-> FALSE]

\* the footnote separator at rest
FootIdle ==
    /\ raw_body = Null
    /\ raw_foot = Null
    /\ separated = [done |-> FALSE]

\* the title tree builder at rest
TocAtRest ==
    /\ title_data = <<>>
    /\ title_hierarchy = <<>>
    /\ toc = [book_id |-> "", status |-> "pending", toc |-> <<>>]
    /\ processed_titles = {}
    /\ first_call = [made |-> FALSE]
    /\ previous_book = ""

\* the same, with TOC mode off
TocIdle == generate_toc = FALSE /\ TocAtRest

NoOutcome == [book_id |-> "", status |-> "pending", toc |-> <<>>]
NoCall == [made |-> FALSE]

\* the book whose title tables are title_data and title_hierarchy
ThisBookId == "1000"

\* another book of the library: a root with a child and a grandchild
OtherBookId == "2000"
OtherTitleData == TitleDataOf(<<"1", "2", "3">>)
OtherTitleHierarchy == [t \in {"1", "2", "3"} |->
                           IF t = "1" THEN "0" ELSE IF t = "2" THEN "1" ELSE "2"]

InitToc ==
    /\ generate_toc \in BOOLEAN
    /\ \E input \in TitleInputs :
           /\ title_data = input[1]
           /\ title_hierarchy = input[2]
    /\ toc = NoOutcome
    /\ processed_titles = {}
    /\ first_call = NoCall
    /\ previous_book = ""

\* every input of the title tree builder, the other components at rest
InitTocOnly == InitToc /\ FootIdle /\ PagesIdle /\ AuthorsIdle /\ JsonIdle
    /\ BookIdle /\ BatchIdle /\ TextIdle

\* one call of _build_table_of_contents, for book bid
CallBuildTableOfContents(bid) ==
    /\ LET out == BuildTableOfContents(generate_toc, bid,
                      IF bid = ThisBookId THEN title_hierarchy
                      ELSE OtherTitleHierarchy,
                      IF bid = ThisBookId THEN title_data ELSE OtherTitleData,
                      processed_titles)
           outcome == [book_id |-> bid, status |-> out.status, toc |-> out.toc]
       IN /\ toc' = outcome
          /\ processed_titles' = out.processed
          /\ first_call' =
                 IF first_call.made THEN first_call
                 ELSE [made |-> TRUE, outcome |-> outcome]
    /\ previous_book' = toc.book_id
    /\ UNCHANGED <<generate_toc, title_data, title_hierarchy>>
    /\ UNCHANGED <<footVars, pageVars, authorVars, jsonVars, bookVars, batchVars, textVars>>

\* the first call of the builder, for book ThisBookId
FirstCall ==
    /\ ~first_call.made
    /\ CallBuildTableOfContents(ThisBookId)

\* a later call of the builder, for the same or for another book
LaterCall(bid) ==
    /\ first_call.made
    /\ CallBuildTableOfContents(bid)

\* one call on every input
NextToc == FirstCall

SpecToc == InitTocOnly /\ [][NextToc]_vars

\* calls without end, on every input
NextTocRerun ==
    \/ FirstCall
    \/ \E bid \in {ThisBookId, OtherBookId} : LaterCall(bid)

SpecTocRerun == InitTocOnly /\ [][NextTocRerun]_vars

(***************************************************************************)
(* Footnote separator: one call on every page record.                      *)
(***************************************************************************)
InitFoot ==
    /\ raw_body \in BodyCells
    /\ raw_foot \in FootCells
    /\ separated = [done |-> FALSE]

\* one call of _separate_body_footnote
CallSeparateBodyFootnote ==
    /\ ~separated.done
    /\ LET out == SeparateBodyFootnote(raw_body, raw_foot)
       IN separated' = [done |-> TRUE, body |-> out.body, footnote |-> out.footnote]
    /\ UNCHANGED <<raw_body, raw_foot>>
    /\ UNCHANGED <<tocVars, pageVars, authorVars, jsonVars, bookVars, batchVars, textVars>>

NextFoot == CallSeparateBodyFootnote

\* every input of the footnote separator, the other components at rest
InitFootOnly == InitFoot /\ TocIdle /\ PagesIdle /\ AuthorsIdle /\ JsonIdle
    /\ BookIdle /\ BatchIdle /\ TextIdle

SpecFoot == InitFootOnly /\ [][NextFoot]_vars

(***************************************************************************)
(* Page aggregator: one _build_book_json on every book content.            *)
(***************************************************************************)
InitPages ==
    /\ book_content \in BookContents
    /\ page_structure \in PageStructures
    /\ book_json = [built |-> FALSE]

\* the part of _build_book_json that organizes the pages by part
BuildBookJson ==
    /\ ~book_json.built
    /\ book_json' = [built |-> TRUE,
                     parts |-> PartsList(book_content, page_structure)]
    /\ UNCHANGED <<book_content, page_structure>>
    /\ UNCHANGED <<tocVars, footVars, authorVars, jsonVars, bookVars, batchVars, textVars>>

NextPages == BuildBookJson

\* every input of the page aggregator, the other components at rest
InitPagesOnly == InitPages /\ TocIdle /\ FootIdle /\ AuthorsIdle /\ JsonIdle
    /\ BookIdle /\ BatchIdle /\ TextIdle

SpecPages == InitPagesOnly /\ [][NextPages]_vars

(***************************************************************************)
(* Author resolver: one resolution on every book record.                   *)
(***************************************************************************)
InitAuthors ==
    /\ book_data \in [authors : AuthorFields, main_author : MainAuthorFields]
    /\ author_ids = <<>>
    /\ authors_info = [resolved |-> FALSE]

\* lines 413-443 of _build_book_json
ResolveBookAuthors ==
    /\ ~authors_info.resolved
    /\ author_ids' = AuthorIds(book_data.authors, book_data.main_author)
    /\ authors_info' =
           [resolved |-> TRUE,
            authors |-> ResolveAuthors(author_ids', AuthorsLookup, book_data.main_author)]
    /\ UNCHANGED book_data
    /\ UNCHANGED <<tocVars, footVars, pageVars, jsonVars, bookVars, batchVars, textVars>>

NextAuthors == ResolveBookAuthors

\* every book record of the author resolver, the other components at rest
InitAuthorsOnly == InitAuthors /\ TocIdle /\ FootIdle /\ PagesIdle /\ JsonIdle
    /\ BookIdle /\ BatchIdle /\ TextIdle

SpecAuthors == InitAuthorsOnly /\ [][NextAuthors]_vars

(***************************************************************************)
(* JSON fields: lines 465-466 of _build_book_json on every field value.    *)
(***************************************************************************)
InitJson ==
    /\ json_field \in {"pdf_links", "meta_data"}
    /\ json_str \in JsonFields
    /\ json_out = [done |-> FALSE]

\* self._parse_json_field(book_data.get(json_field, '')) or {}
ResolveJsonField ==
    /\ ~json_out.done
    /\ json_out' = [done |-> TRUE, value |-> JsonFieldOrEmpty(json_str)]
    /\ UNCHANGED <<json_field, json_str>>
    /\ UNCHANGED <<tocVars, footVars, pageVars, authorVars, bookVars, batchVars, textVars>>

NextJson == ResolveJsonField

\* every value of a JSON field, the other components at rest
InitJsonOnly == InitJson /\ TocIdle /\ FootIdle /\ PagesIdle /\ AuthorsIdle
    /\ BookIdle /\ BatchIdle /\ TextIdle

SpecJson == InitJsonOnly /\ [][NextJson]_vars

(***************************************************************************)
(* One book: one _process_single_book on every book.                       *)
(***************************************************************************)
InitBook ==
    /\ generate_toc \in BOOLEAN
    /\ books_lookup \in BooksLookups
    /\ book_file \in [book_id : {"1000", NotesStem}, content : ContentFiles,
                      database : Databases, titles : TitleFiles]
    /\ book_result = [done |-> FALSE]

\* one call of _process_single_book
CallProcessSingleBook ==
    /\ ~book_result.done
    /\ book_result' =
           [done |-> TRUE,
            outcome |-> ProcessSingleBook(generate_toc, book_file.book_id,
                            books_lookup, book_file.content, book_file.database,
                            book_file.titles)]
    /\ UNCHANGED <<books_lookup, book_file>>
    /\ UNCHANGED <<tocVars, footVars, pageVars, authorVars, jsonVars, batchVars,
                   textVars>>

NextBook == CallProcessSingleBook

\* every book, the other components at rest
InitBookOnly ==
    InitBook /\ TocAtRest /\ FootIdle /\ PagesIdle /\ AuthorsIdle /\ JsonIdle
    /\ BatchIdle /\ TextIdle

SpecBook == InitBookOnly /\ [][NextBook]_vars

(***************************************************************************)
(* The batch: one build_json_files on every list of content files.         *)
(***************************************************************************)
InitBatch ==
    /\ generate_toc \in BOOLEAN
    /\ test_mode \in BOOLEAN
    /\ prerequisites \in BOOLEAN
    /\ book_csv_files \in DistinctSeqs(BookStems, MaxBooks)
    /\ batch = [pc |-> "start", i |-> 0, result |-> FALSE]
    /\ processed_count = 0
    /\ failed_count = 0
    /\ attempted = <<>>
    /\ written = <<>>

\* lines 101-125: build_json_files returns False without prerequisites or
\* without content files, and enters its loop otherwise
StartBatch ==
    /\ batch.pc = "start"
    /\ batch' = IF ~prerequisites \/ book_csv_files = <<>>
                THEN [pc |-> "returned", i |-> 0, result |-> FALSE]
                ELSE [pc |-> "loop", i |-> 0, result |-> FALSE]
    /\ UNCHANGED <<test_mode, prerequisites, book_csv_files, processed_count,
                   failed_count, attempted, written>>
    /\ UNCHANGED <<tocVars, footVars, pageVars, authorVars, jsonVars, bookVars,
                   textVars>>

\* lines 127-162: one iteration of the loop, on the next content file
ProcessNextBook ==
    /\ batch.pc = "loop"
    /\ LET book_id == book_csv_files[batch.i + 1]
           book_out == ProcessLibraryBook(generate_toc, book_id)
       IN /\ attempted' = Append(attempted, book_id)
          /\ written' = IF book_out.kind = "document"
                        THEN Append(written, book_id) ELSE written
          /\ processed_count' = ProcessedAfter(book_out, processed_count)
          /\ failed_count' = FailedAfter(book_out, failed_count)
    /\ batch' = [pc |-> StepAfterBook(test_mode, batch.i + 1, Len(book_csv_files)),
                 i |-> batch.i + 1, result |-> FALSE]
    /\ UNCHANGED <<test_mode, prerequisites, book_csv_files>>
    /\ UNCHANGED <<tocVars, footVars, pageVars, authorVars, jsonVars, bookVars,
                   textVars>>

\* lines 164-178: the summary and the return value
FinishBatch ==
    /\ batch.pc = "summary"
    /\ batch' = [pc |-> "returned", i |-> batch.i, result |-> processed_count > 0]
    /\ UNCHANGED <<test_mode, prerequisites, book_csv_files, processed_count,
                   failed_count, attempted, written>>
    /\ UNCHANGED <<tocVars, footVars, pageVars, authorVars, jsonVars, bookVars,
                   textVars>>

NextBatch == StartBatch \/ ProcessNextBook \/ FinishBatch

\* every list of content files, the other components at rest
InitBatchOnly ==
    InitBatch /\ TocAtRest /\ FootIdle /\ PagesIdle /\ AuthorsIdle /\ JsonIdle
    /\ BookIdle /\ TextIdle

SpecBatch == InitBatchOnly /\ [][NextBatch]_vars

(***************************************************************************)
(* Text normalizer: one _process_text on every page text.                  *)
(***************************************************************************)
InitText ==
    /\ generate_toc \in BOOLEAN
    /\ page_text \in PageTexts
    /\ text_hierarchy \in TextHierarchies
    /\ processed_text = [done |-> FALSE]
    /\ reprocessed_text = [done |-> FALSE]

\* one call of _process_text
CallProcessText ==
    /\ ~processed_text.done
    /\ processed_text' =
           [done |-> TRUE,
            text |-> ProcessText(generate_toc, Text(Concat(page_text)), text_hierarchy)]
    /\ UNCHANGED <<page_text, text_hierarchy, reprocessed_text>>
    /\ UNCHANGED <<tocVars, footVars, pageVars, authorVars, jsonVars, bookVars,
                   batchVars>>

\* one more call of _process_text, on the text the first call returned
CallProcessTextAgain ==
    /\ processed_text.done
    /\ ~reprocessed_text.done
    /\ reprocessed_text' =
           [done |-> TRUE,
            text |-> ProcessText(generate_toc, Text(processed_text.text), text_hierarchy)]
    /\ UNCHANGED <<page_text, text_hierarchy, processed_text>>
    /\ UNCHANGED <<tocVars, footVars, pageVars, authorVars, jsonVars, bookVars,
                   batchVars>>

NextText == CallProcessText \/ CallProcessTextAgain

\* every page text, the other components at rest
InitTextOnly ==
    InitText /\ TocAtRest /\ FootIdle /\ PagesIdle /\ AuthorsIdle /\ JsonIdle
    /\ BookIdle /\ BatchIdle

SpecText == InitTextOnly /\ [][NextText]_vars

(***************************************************************************)
(* Title tree builder: what is observed of an input and of a forest.       *)
(***************************************************************************)
\* the ids of the known titles
KnownTitles(data) == {data[i].id : i \in 1..Len(data)}

\* the parent the builder resolves for a title
ParentOf(hierarchy, id) == DictGet(hierarchy, id, RootSentinel)

\* the known titles met by following the parent pointers upward from id,
\* in at most n hops, stopping at an id that is no known title
RECURSIVE AncestorsWithin(_, _, _, _)
AncestorsWithin(data, hierarchy, id, n) ==
    LET p == ParentOf(hierarchy, id)
    IN IF n = 0 \/ p \notin KnownTitles(data) THEN {}
       ELSE {p} \cup AncestorsWithin(data, hierarchy, p, n - 1)

Ancestors(data, hierarchy, id) ==
    AncestorsWithin(data, hierarchy, id, Len(data))

\* some known title is its own ancestor
HasCycle(data, hierarchy) ==
    \E id \in KnownTitles(data) : id \in Ancestors(data, hierarchy, id)

\* a known title whose parent is neither the sentinel nor a known title
IsOrphan(data, hierarchy, id) ==
    /\ id \in KnownTitles(data)
    /\ ParentOf(hierarchy, id) # RootSentinel
    /\ ParentOf(hierarchy, id) \notin KnownTitles(data)

\* the ids that stand for a title: the known titles and the rows of the
\* title-parent mapping
TitleNodes(data, hierarchy) == KnownTitles(data) \cup DOMAIN hierarchy

\* the ids met by following the parent pointers upward from id in at most n
\* hops, stopping at an id that stands for no title
RECURSIVE ChainAbove(_, _, _, _)
ChainAbove(data, hierarchy, id, n) ==
    LET p == ParentOf(hierarchy, id)
    IN IF n = 0 THEN {}
       ELSE IF p \notin TitleNodes(data, hierarchy) THEN {p}
       ELSE {p} \cup ChainAbove(data, hierarchy, p, n - 1)

\* the parent relation of the input has no cycle: no id that stands for a
\* title is above itself
ParentRelationAcyclic(data, hierarchy) ==
    \A id \in TitleNodes(data, hierarchy) :
        id \notin ChainAbove(data, hierarchy, id,
                      Cardinality(TitleNodes(data, hierarchy)))

\* every known title's parent is the sentinel or a known title, and the
\* parent relation is acyclic
WellFormedTitles(data, hierarchy) ==
    /\ \A id \in KnownTitles(data) :
           \/ ParentOf(hierarchy, id) = RootSentinel
           \/ ParentOf(hierarchy, id) \in KnownTitles(data)
    /\ ParentRelationAcyclic(data, hierarchy)

\* the title a TOC entry of the title id carries
EntryTitle(id) == Strip(TitleText(id))

\* the titles of all entries of a forest, in depth-first order
RECURSIVE ForestTitles(_)
ForestTitles(forest) ==
    IF forest = <<>> THEN <<>>
    ELSE <<Head(forest).title>> \o ForestTitles(Head(forest).chapters)
         \o ForestTitles(Tail(forest))

NodeCount(forest) == Len(ForestTitles(forest))

Occurrences(seq, x) == Cardinality({i \in 1..Len(seq) : seq[i] = x})

\* the pairs <<title of the entry above, title>> of a forest; the entry
\* above a root entry is written <<>>
RECURSIVE ForestEdges(_, _)
ForestEdges(forest, above) ==
    IF forest = <<>> THEN {}
    ELSE {<<above, Head(forest).title>>}
         \cup ForestEdges(Head(forest).chapters, Head(forest).title)
         \cup ForestEdges(Tail(forest), above)

RootTitles(forest) == {forest[i].title : i \in 1..Len(forest)}

\* the last call was for book ThisBookId, in TOC mode, with title data
TocBuilt ==
    /\ toc.status # "pending"
    /\ toc.book_id = ThisBookId
    /\ generate_toc
    /\ title_data # <<>>

C2_BuildTerminates == toc.status # "raised"

\* C3: a parent cycle among the known titles is reported to the caller as
\* an error of the build
C3_CycleIsError ==
    (TocBuilt /\ HasCycle(title_data, title_hierarchy)) => toc.status = "raised"

\* C4: an orphan is a root entry of the returned forest
C4_OrphanIsRoot ==
    (TocBuilt /\ toc.status = "toc") =>
        \A id \in KnownTitles(title_data) :
            IsOrphan(title_data, title_hierarchy, id) =>
                EntryTitle(id) \in RootTitles(toc.toc)

\* C5: every call for a book gives the outcome of the first call for that
\* book, whatever the builder built in between
C5_RerunIdempotent ==
    (first_call.made /\ toc.book_id = ThisBookId) => toc = first_call.outcome

\* the first book built again after another book, with entries
C5_Witness ==
    /\ first_call.made
    /\ toc.book_id = ThisBookId
    /\ previous_book = OtherBookId
    /\ toc.status = "toc"
    /\ NodeCount(toc.toc) >= 2
    /\ processed_titles # {}

(***************************************************************************)
(* Footnote separator: what is observed of a page record.                  *)
(***************************************************************************)
\* the text of a cell, a NULL cell read as the empty text
CellText(cell) == IF cell.isna THEN <<>> ELSE cell.text

\* s without its leading and trailing whitespace: the piece of s between
\* two cuts with only whitespace outside and none at its two ends
Trimmed(s) ==
    LET cut == CHOOSE p \in (1..(Len(s) + 1)) \X (0..Len(s)) :
                   /\ \A k \in 1..(p[1] - 1) : s[k] \in Whitespace
                   /\ \A k \in (p[2] + 1)..Len(s) : s[k] \in Whitespace
                   /\ p[1] <= p[2] =>
                          (s[p[1]] \notin Whitespace /\ s[p[2]] \notin Whitespace)
    IN SubSeq(s, cut[1], cut[2])

\* five underscores stand at positions i..i+4 of f
FiveUnderscoresAt(f, i) ==
    /\ i >= 1
    /\ i + 4 <= Len(f)
    /\ \A k \in i..(i + 4) : f[k] = "_"

HasSeparatorRun(f) == \E i \in 1..Len(f) : FiveUnderscoresAt(f, i)

\* where the first run of five or more underscores of f starts
FirstRunStart(f) ==
    CHOOSE i \in 1..Len(f) :
        FiveUnderscoresAt(f, i) /\ \A j \in 1..(i - 1) : ~FiveUnderscoresAt(f, j)

\* where the run of underscores that starts at i ends
RunEnd(f, i) ==
    CHOOSE e \in i..Len(f) :
        /\ \A k \in i..e : f[k] = "_"
        /\ e = Len(f) \/ f[e + 1] # "_"

TrimmedBody == Trimmed(CellText(raw_body))
TrimmedFoot == Trimmed(CellText(raw_foot))

\* C6: when the body is non-empty after null-coercion and trimming, the
\* separator returns that body and the trimmed foot: the foot is neither
\* split nor promoted, whatever underscores it holds
C6_BodyPresentNoOp ==
    (separated.done /\ TrimmedBody # <<>>) =>
        /\ separated.body = TrimmedBody
        /\ separated.footnote = TrimmedFoot

\* a body, and a foot with a separator run and whitespace around it
C6_Witness ==
    /\ separated.done
    /\ TrimmedBody # <<>>
    /\ HasSeparatorRun(TrimmedFoot)
    /\ TrimmedFoot # CellText(raw_foot)
    /\ separated.footnote = TrimmedFoot

\* C7: with an empty body and a foot that holds a run of five or more
\* underscores, body is the trimmed text before the first such run and
\* footnote the trimmed text after the whole of that run, later runs included
C7_SplitAtFirstRun ==
    (separated.done /\ TrimmedBody = <<>> /\ HasSeparatorRun(TrimmedFoot)) =>
        LET f == TrimmedFoot
            start == FirstRunStart(f)
            end == RunEnd(f, start)
        IN /\ separated.body = Trimmed(SubSeq(f, 1, start - 1))
           /\ separated.footnote = Trimmed(SubSeq(f, end + 1, Len(f)))

\* a foot with two separator runs, the first of more than five underscores
\* and with text before it: the second run stays in the footnote
C7_Witness ==
    /\ separated.done
    /\ TrimmedBody = <<>>
    /\ HasSeparatorRun(TrimmedFoot)
    /\ RunEnd(TrimmedFoot, FirstRunStart(TrimmedFoot)) - FirstRunStart(TrimmedFoot) >= 5
    /\ separated.body # <<>>
    /\ HasSeparatorRun(separated.footnote)

\* C8: with an empty body and a foot without a run of five or more
\* underscores, body is the whole trimmed foot and footnote is empty; with
\* both empty the result is two empty texts
C8_FootPromoted ==
    (separated.done /\ TrimmedBody = <<>> /\ ~HasSeparatorRun(TrimmedFoot)) =>
        /\ separated.body = TrimmedFoot
        /\ separated.footnote = <<>>

\* a foot promoted to body although it holds four underscores in a row
C8_Witness ==
    /\ separated.done
    /\ TrimmedBody = <<>>
    /\ ~HasSeparatorRun(TrimmedFoot)
    /\ \E i \in 1..Len(TrimmedFoot) : RunLengthAt(TrimmedFoot, i) = 4
    /\ separated.body = TrimmedFoot
    /\ separated.body # CellText(raw_foot)

(***************************************************************************)
(* Page aggregator: what is observed of the page records and the parts.    *)
(***************************************************************************)
\* the part label of the i-th page record
LabelOfRecord(i) ==
    LET id == book_content[i].PageID
    IN IF id \in DOMAIN page_structure /\ ~page_structure[id].part.isna
       THEN page_structure[id].part.text
       ELSE <<>>

RecordLabels == {LabelOfRecord(i) : i \in 1..Len(book_content)}

\* the place of the first page record with the label
FirstRecordWith(label) ==
    CHOOSE i \in 1..Len(book_content) :
        /\ LabelOfRecord(i) = label
        /\ \A j \in 1..(i - 1) : LabelOfRecord(j) # label

\* the places of the page records with the label, in increasing order
RECURSIVE RecordsWithFrom(_, _)
RecordsWithFrom(label, i) ==
    IF i > Len(book_content) THEN <<>>
    ELSE IF LabelOfRecord(i) = label THEN <<i>> \o RecordsWithFrom(label, i + 1)
    ELSE RecordsWithFrom(label, i + 1)

\* the pages of all parts, one after the other
RECURSIVE AllPages(_)
AllPages(parts) ==
    IF parts = <<>> THEN <<>> ELSE Head(parts).pages \o AllPages(Tail(parts))

\* C9: the part groups stand in the order of the first appearance of their
\* label in the page records, and the pages of a group are the page records
\* with its label in the order of the input
C9_FirstSeenOrder ==
    book_json.built =>
        LET parts == book_json.parts
        IN /\ {parts[g].part : g \in 1..Len(parts)} = RecordLabels
           /\ \A g, h \in 1..Len(parts) :
                  g < h => FirstRecordWith(parts[g].part) < FirstRecordWith(parts[h].part)
           /\ \A g \in 1..Len(parts) :
                  LET places == RecordsWithFrom(parts[g].part, 1)
                  IN parts[g].pages =
                         [k \in 1..Len(places) |->
                             PageData(book_content[places[k]], page_structure)]

\* page records with the parts "", "1", "", "2" built into the parts
\* "", "1", "2"
C9_Witness ==
    /\ book_json.built
    /\ Len(book_content) = 4
    /\ [i \in 1..4 |-> LabelOfRecord(i)] = <<<<>>, <<"1">>, <<>>, <<"2">>>>
    /\ [g \in 1..Len(book_json.parts) |-> book_json.parts[g].part]
           = <<<<>>, <<"1">>, <<"2">>>>

\* C10: every page record is emitted exactly once, in the group of its own
\* part label: the parts hold as many pages as there are records, each page
\* value as often as the records give it, records of one page_id included
C10_PassthroughPartition ==
    book_json.built =>
        LET parts == book_json.parts
            emitted == AllPages(parts)
            given == [i \in 1..Len(book_content) |->
                         PageData(book_content[i], page_structure)]
        IN /\ Len(emitted) = Len(book_content)
           /\ \A i \in 1..Len(given) :
                  Occurrences(emitted, given[i]) = Occurrences(given, given[i])
           /\ \A g, h \in 1..Len(parts) : g # h => parts[g].part # parts[h].part
           /\ \A g \in 1..Len(parts) :
                  Len(parts[g].pages) =
                      Cardinality({i \in 1..Len(book_content) :
                                      LabelOfRecord(i) = parts[g].part})

\* the same page record given twice, and another record of its page_id:
\* all three emitted in one part
C10_Witness ==
    /\ book_json.built
    /\ Len(book_json.parts) = 2
    /\ \E g \in 1..Len(book_json.parts) :
           LET pages == book_json.parts[g].pages
           IN /\ Len(pages) = 3
              /\ pages[1] = pages[3]
              /\ pages[1] # pages[2]
              /\ pages[1].page_id = pages[2].page_id

\* C17: a page without a structure entry (the book has no structure mapping
\* or the mapping has no entry for the page) is emitted with part "" and
\* with page_number "", not with a substitute value
C17_AbsentStructureEmptyDefaults ==
    book_json.built =>
        \A g \in 1..Len(book_json.parts) :
            \A k \in 1..Len(book_json.parts[g].pages) :
                book_json.parts[g].pages[k].page_id \notin DOMAIN page_structure =>
                    /\ book_json.parts[g].part = <<>>
                    /\ book_json.parts[g].pages[k].page_number = ""

(***************************************************************************)
(* Author resolver: what is observed of a book record and of its authors.  *)
(***************************************************************************)
\* a..b is a piece of f between two commas (or an end of f)
IsCommaPiece(f, a, b) ==
    /\ a = 1 \/ f[a - 1] = ","
    /\ b = Len(f) \/ f[b + 1] = ","
    /\ \A k \in a..b : f[k] # ","

\* where the comma-separated tokens of f that are not blank start
TokenStarts(f) ==
    {a \in 1..Len(f) : \E b \in a..Len(f) :
        IsCommaPiece(f, a, b) /\ Trimmed(SubSeq(f, a, b)) # <<>>}

\* the token of f that starts at a
TokenAt(f, a) ==
    Trimmed(SubSeq(f, a, CHOOSE b \in a..Len(f) : IsCommaPiece(f, a, b)))

\* the non-empty comma-separated tokens of f, in their order in f
TokensOf(f) ==
    LET starts == TokenStarts(f)
        order == CHOOSE q \in [1..Cardinality(starts) -> starts] :
                     \A i, j \in 1..Cardinality(starts) : i < j => q[i] < q[j]
    IN [i \in 1..Cardinality(starts) |-> TokenAt(f, order[i])]

\* the main-author id as a token
MainToken == StrOfInt(book_data.main_author.id)

\* tokens, followed by the main-author id when the record has one that is
\* not among them
WithMainAuthor(tokens) ==
    IF book_data.main_author.present /\ \A k \in 1..Len(tokens) : tokens[k] # MainToken
    THEN tokens \o <<MainToken>>
    ELSE tokens

\* the authors field reads "[]" or "None"
FieldReadsEmpty == Trimmed(book_data.authors) \in {EmptyListText, NoneText}

\* C11 as stated: the ordered id list is the non-empty comma-separated
\* tokens of the authors field in their original order, followed by the
\* main-author id only when it is not already in that list
C11_IdListIsTokensThenMain ==
    authors_info.resolved =>
        author_ids = WithMainAuthor(TokensOf(book_data.authors))

\* C11 as amended: the same, except that an authors field that reads "[]"
\* or "None" counts as empty, so that its id list is the main-author id
\* alone (or nothing)
C11_IdListOfField ==
    authors_info.resolved =>
        author_ids = WithMainAuthor(IF FieldReadsEmpty THEN <<>>
                                    ELSE TokensOf(book_data.authors))

\* authors "5, 7" with main_author 7, resolved: the ids 5 and 7, without a
\* second 7
C11_Witness ==
    /\ authors_info.resolved
    /\ book_data.authors = <<"5", ",", " ", "7">>
    /\ book_data.main_author = MainAuthor(7)
    /\ author_ids = <<StrOfInt(5), StrOfInt(7)>>

\* the author ids of the entries of the authors sequence, in order
EntryIds == [k \in 1..Len(authors_info.authors) |-> authors_info.authors[k].id]

\* C12: the authors sequence of the document never contains two entries
\* with the same author id
C12_NoDuplicateIds ==
    authors_info.resolved =>
        \A j, k \in 1..Len(authors_info.authors) :
            j # k => EntryIds[j] # EntryIds[k]

\* the main author of the book record has a record in the author lookup
MainAuthorKnown ==
    book_data.main_author.present /\ book_data.main_author.id \in DOMAIN AuthorsLookup

\* C13: when the main_author id has a record in the author lookup, the
\* authors sequence contains an entry for that id with is_main_author true,
\* and every other entry has is_main_author false
C13_MainAuthorIncluded ==
    (authors_info.resolved /\ MainAuthorKnown) =>
        \E m \in 1..Len(authors_info.authors) :
            /\ EntryIds[m] = MainToken
            /\ authors_info.authors[m].is_main_author
            /\ \A k \in 1..Len(authors_info.authors) :
                   k # m => ~authors_info.authors[k].is_main_author

\* token writes the number n in decimal digits, leading zeros allowed
Denotes(token, n) ==
    \E z \in 0..Len(token) :
        /\ \A k \in 1..z : token[k] = "0"
        /\ SubSeq(token, z + 1, Len(token)) = StrOfInt(n)

\* token is the id of an author who has a record
IsValidId(token) == \E n \in DOMAIN AuthorsLookup : Denotes(token, n)

\* the author a valid token is the id of
AuthorOf(token) == CHOOSE n \in DOMAIN AuthorsLookup : Denotes(token, n)

\* the authors of the valid ids of a list of tokens, in the order of the list
RECURSIVE ValidAuthorsOf(_)
ValidAuthorsOf(tokens) ==
    IF tokens = <<>> THEN <<>>
    ELSE (IF IsValidId(Head(tokens)) THEN <<AuthorOf(Head(tokens))>> ELSE <<>>)
         \o ValidAuthorsOf(Tail(tokens))

\* C14: a non-numeric token of the author id list, or a numeric id without
\* a record in the author lookup, produces no entry and does not make the
\* book fail; the valid ids of the list are all emitted, in their order
C14_BadTokensSkipped ==
    authors_info.resolved =>
        LET valid == ValidAuthorsOf(author_ids)
        IN /\ Len(authors_info.authors) = Len(valid)
           /\ \A k \in 1..Len(valid) :
                  /\ EntryIds[k] = StrOfInt(valid[k])
                  /\ authors_info.authors[k].name = AuthorsLookup[valid[k]].author_name

\* authors "5,x,7" with main_author 9, who has no record: the entries of 5
\* and 7 and no other
C14_Witness ==
    /\ authors_info.resolved
    /\ book_data.authors = <<"5", ",", "x", ",", "7">>
    /\ book_data.main_author = MainAuthor(9)
    /\ author_ids = <<StrOfInt(5), <<"x">>, StrOfInt(7), StrOfInt(9)>>
    /\ EntryIds = <<StrOfInt(5), StrOfInt(7)>>

(***************************************************************************)
(* JSON fields: the texts that are JSON, built from the grammar.           *)
(***************************************************************************)
\* the runs of up to n blanks
BlankRuns(n) == {[k \in 1..m |-> " "] : m \in 0..n}

\* the texts of S, with blanks before and after, of at most n pieces
Padded(S, n) ==
    {t \in {(b1 \o v) \o b2 : <<b1, v, b2>> \in BlankRuns(n) \X S \X BlankRuns(n)} :
        Len(t) <= n}

\* one or more texts of S joined by commas, of at most n pieces
RECURSIVE CommaLists(_, _, _)
CommaLists(S, n, count) ==
    IF count = 1 THEN {t \in S : Len(t) <= n}
    ELSE LET shorter == CommaLists(S, n, count - 1)
         IN shorter \cup
            {t \in {(l \o <<",">>) \o i : <<l, i>> \in shorter \X S} : Len(t) <= n}

\* the JSON values of at most n pieces, nested at most depth deep, without
\* blanks around them
RECURSIVE JsonTexts(_, _)
JsonTexts(depth, n) ==
    LET numbers == {[k \in 1..m |-> "1"] : m \in 1..n}
        atoms == {t \in {<<"s">>} \cup numbers : Len(t) <= n}
    IN IF depth = 0 \/ n < 2 THEN atoms
       ELSE LET inner == JsonTexts(depth - 1, n - 2)
                elements == Padded(inner, n - 2)
                keys == Padded({<<"s">>}, n - 2)
                pairs == {t \in {(k \o <<":">>) \o e : <<k, e>> \in keys \X elements} :
                             Len(t) <= n - 2}
                bodies(S) == BlankRuns(n - 2) \cup CommaLists(S, n - 2, n)
            IN atoms
               \cup {(<<"[">> \o b) \o <<"]">> : b \in bodies(elements)}
               \cup {(<<"{">> \o b) \o <<"}">> : b \in bodies(pairs)}

\* the JSON values of at most MaxJsonPieces pieces
AllJsonTexts == JsonTexts(MaxJsonPieces, MaxJsonPieces)

\* the field value is a text that is JSON, blanks around it allowed
IsJsonText(cell) == ~cell.isna /\ Trimmed(cell.text) \in AllJsonTexts

\* C19: a pdf_links or meta_data field that is null, empty, or a text that
\* fails to parse as JSON is an empty object in the document, and resolving
\* it raises nothing
C19_UnparsableIsEmptyObject ==
    (json_out.done /\ ~IsJsonText(json_str)) => json_out.value = EmptyObject

\* the text {"a": which ends before the value of the pair, resolved
C19_Witness ==
    /\ json_out.done
    /\ json_str = Text(<<"{", "s", ":">>)
    /\ json_out.value = EmptyObject

(***************************************************************************)
(* One book: what is observed of a book and of its document.               *)
(***************************************************************************)
\* the book id has a record in the book table
HasBookRecord == \E n \in DOMAIN books_lookup : ToString(n) = book_file.book_id

\* the book has page content: a content file that is read as one or more
\* page records
HasPageContent ==
    book_file.content.state = "read" /\ book_file.content.records # <<>>

\* the number of pages in the parts of a document
PagesIn(doc) == Len(AllPages(doc.parts))

\* C15: _process_single_book yields no document whenever the book id has no
\* metadata record or the book has no page content (missing, unreadable, or
\* an empty sequence of page records); every document returned has a
\* metadata record and at least one page in its parts
C15_AllOrNothing ==
    book_result.done =>
        /\ (~HasBookRecord \/ ~HasPageContent) => book_result.outcome.kind # "document"
        /\ book_result.outcome.kind = "document" =>
               (HasBookRecord /\ PagesIn(book_result.outcome.document) >= 1)

\* C18: with TOC mode off the document has no table_of_contents key and the
\* title tree builder is not run; with TOC mode on and no title data the
\* build is not an error and the document has an empty table of contents
C18_TocPresence ==
    (book_result.done /\ HasBookRecord /\ book_file.content.state = "read") =>
        /\ ~generate_toc =>
               /\ book_result.outcome.kind = "document"
               /\ ~book_result.outcome.document.has_table_of_contents
               /\ ~book_result.outcome.document.toc_built
        /\ (generate_toc /\ book_file.titles = <<>>) =>
               /\ book_result.outcome.kind = "document"
               /\ book_result.outcome.document.has_table_of_contents
               /\ book_result.outcome.document.table_of_contents = <<>>

(***************************************************************************)
(* The batch: what is observed of a run of build_json_files.               *)
(***************************************************************************)
\* what becomes of a book of the library: it has a document, or none, or
\* its processing raises
FateOf(book_id) ==
    IF book_id = NotesStem THEN "raises"
    ELSE IF book_id \in {"2000", "3000"} THEN "none"
    ELSE IF book_id = "4000" /\ generate_toc THEN "raises"
    ELSE "document"

\* the number of books among the first n content files that have no document
FailuresAmongFirst(n) ==
    Cardinality({k \in 1..n : FateOf(book_csv_files[k]) # "document"})

\* the loop of build_json_files has been entered
LoopEntered == batch.pc \in {"loop", "summary"} \/ (batch.pc = "returned" /\ batch.i > 0)

\* C16: with test mode off every content file is attempted once, in list
\* order; a book that raises or yields no document is counted in
\* failed_count and the loop goes on; after each iteration processed_count +
\* failed_count is the number of books attempted so far, and at the end the
\* number of content files
C16_FailureNeverAborts ==
    (~test_mode /\ LoopEntered) =>
        /\ attempted = SubSeq(book_csv_files, 1, batch.i)
        /\ processed_count + failed_count = Len(attempted)
        /\ failed_count = FailuresAmongFirst(batch.i)
        /\ batch.pc \in {"summary", "returned"} => batch.i = Len(book_csv_files)

\* a batch of three books, ended: the first raises, the second has no
\* metadata record, the third has its document
C16_Witness ==
    /\ ~test_mode
    /\ batch.pc = "returned"
    /\ book_csv_files = <<NotesStem, "2000", "1000">>
    /\ attempted = book_csv_files
    /\ written = <<"1000">>
    /\ failed_count = 2
    /\ processed_count = 1
    /\ batch.result

(***************************************************************************)
(* Text normalizer: plain text in TOC mode.                                *)
(***************************************************************************)
\* a piece of a page text is a tag or textual content
IsTagPiece(piece) == Head(piece) = "<"

\* the tag that closes an opening tag; an image tag is closed by nothing
OpeningTags == {HeadingSpanTag, OtherSpanTag, BoldTag}
ClosingTagOf(piece) == IF piece = BoldTag THEN BoldEnd ELSE SpanEnd

\* the tags of a text are well formed: every closing tag closes the element
\* opened last, and every element opened is closed
RECURSIVE ClosesAll(_, _)
ClosesAll(pieces, open) ==
    IF pieces = <<>> THEN open = <<>>
    ELSE LET piece == Head(pieces)
         IN IF piece \in OpeningTags
            THEN ClosesAll(Tail(pieces), <<ClosingTagOf(piece)>> \o open)
            ELSE IF piece \in {SpanEnd, BoldEnd}
                 THEN open # <<>> /\ Head(open) = piece
                      /\ ClosesAll(Tail(pieces), Tail(open))
                 ELSE ClosesAll(Tail(pieces), open)

WellFormed(pieces) == ClosesAll(pieces, <<>>)

\* the textual content between the tags of a text
TextualContent(pieces) ==
    Concat(SelectSeq(pieces, LAMBDA piece : ~IsTagPiece(piece)))

\* a text with line feeds in the place of its carriage returns
IsWithLineBreaks(out, s) ==
    /\ Len(out) = Len(s)
    /\ \A i \in 1..Len(s) : out[i] = (IF s[i] = "\r" THEN "\n" ELSE s[i])

\* a text that holds no tag holds no angle bracket
NoResidualTag(s) == \A i \in 1..Len(s) : s[i] \notin {"<", ">"}

\* C20 as stated: in TOC mode, _process_text on a text of well-formed tags
\* returns the textual content between the tags verbatim, with no residual
\* tag of any kind
C20_PlainTextVerbatim ==
    (processed_text.done /\ generate_toc /\ WellFormed(page_text)) =>
        /\ processed_text.text = TextualContent(page_text)
        /\ NoResidualTag(processed_text.text)

\* C20: in TOC mode, _process_text on a text of well-formed tags returns
\* the textual content between the tags, verbatim but for its carriage
\* returns, which are line feeds in the output, with no residual tag of
\* any kind
C20_PlainTextWithLineBreaks ==
    (processed_text.done /\ generate_toc /\ WellFormed(page_text)) =>
        /\ IsWithLineBreaks(processed_text.text, TextualContent(page_text))
        /\ NoResidualTag(processed_text.text)

\* the heading span of title 12 around "Chapter One" has become "Chapter One"
C20_Witness ==
    /\ processed_text.done
    /\ generate_toc
    /\ page_text = <<HeadingSpanTag, ChapterOne, SpanEnd>>
    /\ WellFormed(page_text)
    /\ processed_text.text = ChapterOne

(***************************************************************************)
(* Text normalizer: heading elements and span wrappers with TOC mode off.  *)
(***************************************************************************)
\* the opening tag of the heading element of title 12: its id and the
\* parent the TOC builder resolves for it from the same lookup
HeadingElementTag(hierarchy) ==
    TitleStart \o <<" ", "i", "d", "=", "1", "2", " ", "p", "a", "r", "e", "n", "t", "=",
                    ParentOf(hierarchy, "12"), ">">>

\* what the normalizer is to make of a text of well-formed tags with TOC
\* mode off: a heading span becomes a heading element, the tags of another
\* span and an image tag go, the rest stays; open holds what the closing
\* tags of the elements opened so far become
RECURSIVE Rendered(_, _, _)
Rendered(pieces, open, hierarchy) ==
    IF pieces = <<>> THEN <<>>
    ELSE LET piece == Head(pieces)
             rest == Tail(pieces)
         IN IF piece = HeadingSpanTag
            THEN HeadingElementTag(hierarchy) \o Rendered(rest, <<TitleEnd>> \o open, hierarchy)
            ELSE IF piece = OtherSpanTag
            THEN Rendered(rest, <<<<>>>> \o open, hierarchy)
            ELSE IF piece = BoldTag
            THEN piece \o Rendered(rest, <<BoldEnd>> \o open, hierarchy)
            ELSE IF piece \in {SpanEnd, BoldEnd}
            THEN Head(open) \o Rendered(rest, Tail(open), hierarchy)
            ELSE IF piece = ImgTag
            THEN Rendered(rest, open, hierarchy)
            ELSE [i \in 1..Len(piece) |-> IF piece[i] = "\r" THEN "\n" ELSE piece[i]]
                 \o Rendered(rest, open, hierarchy)

\* the heading elements of a text, in their order: the opening tag of each
\* and the content up to its closing tag
HeadingStarts(s) == {j \in 1..Len(s) : StartsWithAt(s, j, TitleStart)}

HeadingElementAt(s, j) ==
    LET gt == FindFrom(s, j, <<">">>)
        close == IF gt = 0 THEN 0 ELSE FindFrom(s, gt + 1, TitleEnd)
    IN [tag |-> IF gt = 0 THEN <<>> ELSE SubSeq(s, j, gt),
        closed |-> close # 0,
        content |-> IF close = 0 THEN <<>> ELSE SubSeq(s, gt + 1, close - 1)]

HeadingElements(s) ==
    {<<Cardinality({k \in HeadingStarts(s) : k < j}), HeadingElementAt(s, j)>> :
        j \in HeadingStarts(s)}

\* the text has a heading span
HasHeadingSpan(pieces) == \E k \in 1..Len(pieces) : pieces[k] = HeadingSpanTag

\* C21: with TOC mode off, every heading span of title n of a text of
\* well-formed tags is a heading element of the output that carries id n
\* and the parent the TOC builder resolves for n from the title table (the
\* sentinel "0" when n has no row), around the content that stood between
\* the tags of the span
C21_HeadingSpansRewritten ==
    (processed_text.done /\ ~generate_toc /\ WellFormed(page_text)
        /\ HasHeadingSpan(page_text)) =>
        HeadingElements(processed_text.text) =
            HeadingElements(Rendered(page_text, <<>>, text_hierarchy))

\* the span tags of a text are balanced: every closing span tag closes a
\* span or heading span opened before it, and every one opened is closed
IsSpanPiece(piece) == piece \in {HeadingSpanTag, OtherSpanTag, SpanEnd}
SpansBalanced(pieces) == ClosesAll(SelectSeq(pieces, IsSpanPiece), <<>>)

\* a text that holds no opening and no closing tag of a span
NoSpanTag(s) ==
    \A j \in 1..Len(s) : ~StartsWithAt(s, j, SpanStart) /\ ~StartsWithAt(s, j, SpanEnd)

\* C22: with TOC mode off, the output of _process_text for a text of
\* balanced span tags, nested ones included, holds no opening and no
\* closing span tag, and _process_text applied to the output returns it
\* unchanged
C22_NoSpanTagLeft ==
    (processed_text.done /\ ~generate_toc /\ SpansBalanced(page_text)) =>
        /\ NoSpanTag(processed_text.text)
        /\ reprocessed_text.done => reprocessed_text.text = processed_text.text

(***************************************************************************)
(* Title tree builder: the order of the entries.                           *)
(***************************************************************************)
\* the place of the title of an entry in the iteration of title_data
PlaceOf(data, title) == CHOOSE i \in 1..Len(data) : EntryTitle(data[i].id) = title

\* the entries of one list stand in the order title_data is iterated in
InIterationOrder(entries, data) ==
    \A a, b \in 1..Len(entries) :
        a < b => PlaceOf(data, entries[a].title) < PlaceOf(data, entries[b].title)

\* the root entries and the entries of every chapters list do
RECURSIVE EveryListInIterationOrder(_, _)
EveryListInIterationOrder(forest, data) ==
    /\ InIterationOrder(forest, data)
    /\ \A k \in 1..Len(forest) : EveryListInIterationOrder(forest[k].chapters, data)

\* C23: the root entries of a returned forest stand in the order their ids
\* are iterated in title_data, and so do the siblings of every chapters
\* list, whatever the numeric order of the ids and the title table
C23_IterationOrder ==
    (TocBuilt /\ toc.status = "toc") =>
        EveryListInIterationOrder(toc.toc, title_data)

\* titles iterated as 2, 4, 3, 1: the roots are 2 and 1 in that order, and
\* the chapters of 2 are 4 and 3 in that order
C23_Witness ==
    /\ TocBuilt
    /\ toc.status = "toc"
    /\ title_data = TitleDataOf(<<"2", "4", "3", "1">>)
    /\ title_hierarchy = [id \in FourTitleIds |->
                             IF id \in {"1", "2"} THEN "0" ELSE "2"]
    /\ Len(toc.toc) = 2
    /\ toc.toc[1].title = EntryTitle("2")
    /\ toc.toc[2].title = EntryTitle("1")
    /\ Len(toc.toc[1].chapters) = 2
    /\ toc.toc[1].chapters[1].title = EntryTitle("4")
    /\ toc.toc[1].chapters[2].title = EntryTitle("3")

RECURSIVE ReachesSentinelWithin(_, _, _, _)
ReachesSentinelWithin(data, hierarchy, id, n) ==
    LET p == ParentOf(hierarchy, id)
    IN IF p = RootSentinel THEN TRUE
       ELSE IF n = 0 \/ p \notin KnownTitles(data) THEN FALSE
       ELSE ReachesSentinelWithin(data, hierarchy, p, n - 1)

ReachesSentinel(data, hierarchy, id) ==
    ReachesSentinelWithin(data, hierarchy, id, Len(data))

\* no root entry is an entry below a root entry before it
NoRootBelowEarlierRoot(forest) ==
    \A a, b \in 1..Len(forest) :
        a < b => Occurrences(ForestTitles(forest[a].chapters), forest[b].title) = 0

\* C25: when "0" is no known title, a returned forest holds no title more
\* than once, a known title is in it if and only if its parent pointers
\* lead through known titles to the sentinel "0", and no root entry is
\* also an entry below an earlier root
C25_ForestTitlesReachSentinel ==
    (TocBuilt /\ toc.status = "toc" /\ RootSentinel \notin KnownTitles(title_data)) =>
        /\ \A id \in KnownTitles(title_data) :
               Occurrences(ForestTitles(toc.toc), EntryTitle(id)) =
                   IF ReachesSentinel(title_data, title_hierarchy, id) THEN 1 ELSE 0
        /\ NoRootBelowEarlierRoot(toc.toc)

====
